---- MODULE Spec2Model ----
(***************************************************************************)
(* The demo GraphQL servers of the course: a per-request context factory,  *)
(* the field resolvers, the in-memory / Prisma stores they reach through   *)
(* the context, and the request pipeline that runs them.                   *)
(*                                                                         *)
(* Four servers are modelled, one per course module:                       *)
(*   "context"  module-06-context      (db + logger + auth + request meta) *)
(*   "jwt"      module-06-context-02   (JWT lookup table, users only)      *)
(*   "errors"   module-07-error-handling (custom error classes, masking)   *)
(*   "prisma"   module-08-prisma-database (async resolvers over Prisma)    *)
(* A behaviour fixes one server in Init; requests then arrive, get a       *)
(* context, have their root selections resolved and are answered.          *)
(***************************************************************************)
EXTENDS Integers, Sequences, FiniteSets, TLC

(* ------------------------------ bounds -------------------------------- *)
\* request slots that may be in flight at the same time
NumRequests == 2
\* requests received in one behaviour of the sequential specification
MaxReqs == 2
\* top-level selections of one document
MaxSel == 2

VARIABLES
  srv,     \* the server this behaviour runs
  isDev,   \* NODE_ENV === 'development' (read by the error masking hook)
  dbUp,    \* whether a Prisma call issued now succeeds
  db,      \* the data store of the server (module-level arrays / database)
  nreq,    \* number of requests received so far
  conc,    \* whether requests may be in flight concurrently
  pc,      \* per request: "idle", "ctx", "ctxwait", "exec", "done", "failed"
  hdr,     \* per request: the Authorization header, split at single spaces
  doc,     \* per request: the operation, [kind, sels]
  ctx,     \* per request: the context value the factory returned
  fld,     \* per request: the state of every top-level selection
  resp,    \* per request: the response envelope
  builds,  \* per request: how often the context factory ran for it
  seen,    \* per request: the context values its resolvers were handed
  fault    \* per request: whether the identity lookup of its factory failed

vars == <<srv, isDev, dbUp, db, nreq, conc, pc, hdr, doc, ctx, fld, resp,
          builds, seen, fault>>

Requests == 1..NumRequests

(* ------------------------------ values -------------------------------- *)
\* null / undefined (the two are not told apart by the response)
NullV == [k |-> "null"]
\* no context built yet
NoCtx == [k |-> "none"]
\* no response yet
NoResp == [k |-> "none"]
\* boxed resolver results
Obj(o) == [k |-> "obj", o |-> o]
List(l) == [k |-> "list", l |-> l]
Str(s) == [k |-> "str", s |-> s]
Num(n) == [k |-> "int", n |-> n]
Box(o) == IF o = NullV THEN NullV ELSE Obj(o)

\* argument record of a selection (unused parts keep their defaults)
Arg(id, n, s) == [id |-> id, n |-> n, s |-> s]
NoArg == Arg("", 0, "")
\* the arguments of batchUsers(ids), createProduct(name, price, stock),
\* posts(published) and of the mutations that take an input object
ArgIds(ids) == [id |-> "", n |-> 0, s |-> "", ids |-> ids]
ArgProduct(name, price, stock) ==
  [id |-> "", n |-> 0, s |-> "", name |-> name, price |-> price, stock |-> stock]
ArgPublished(published) == [id |-> "", n |-> 0, s |-> "", published |-> published]
\* the input objects of module-05: CreateUserInput, UpdateUserInput
UserInput(has, name, email, age) == [has |-> has, name |-> name, email |-> email, age |-> age]
ArgInput(id, input) == [id |-> id, n |-> 0, s |-> "", input |-> input]
\* an input object: has = the fields the client set (the others are undefined)
PostInput(has, title, content, published) ==
  [has |-> has, title |-> title, content |-> content, published |-> published]
Sel(f, a, sub) == [f |-> f, a |-> a, sub |-> sub]

\* resolver outcomes
NoErr == [code |-> "", msg |-> ""]
Return(v) == [t |-> "ok", v |-> v, e |-> NoErr]
Throw(code, msg) == [t |-> "throw", v |-> NullV, e |-> [code |-> code, msg |-> msg]]
NoOut == [t |-> "none", v |-> NullV, e |-> NoErr]

\* property names that every object literal inherits from Object.prototype;
\* obj[key] for such a key is the inherited member, which is truthy, and
\* whose id, email and role read as undefined (written "")
ObjectPrototype == {"constructor", "toString", "valueOf", "hasOwnProperty", "__proto__"}
Inherited(key) == [id |-> "", email |-> "", role |-> "", inherited |-> key]

\* Array.prototype.find / filter over a sequence
Find(seq, P(_)) ==
  IF \E i \in 1..Len(seq) : P(seq[i])
  THEN seq[CHOOSE i \in 1..Len(seq) : P(seq[i]) /\ \A j \in 1..(i-1) : ~P(seq[j])]
  ELSE NullV
Filter(seq, P(_)) == SelectSeq(seq, P)

\* String.prototype.trim and toLowerCase, on the strings clients send and
\* the stores hold
Trim(s) ==
  CASE s = "  Hi  " -> "Hi"
    [] s = " X" -> "X"
    [] s = " Laptop" -> "Laptop"
    [] OTHER -> s
ToLowerCase(s) ==
  CASE s = "Laptop" -> "laptop"
    [] s = "Mouse" -> "mouse"
    [] s = "Keyboard" -> "keyboard"
    [] s = "Monitor" -> "monitor"
    [] s = "Webcam" -> "webcam"
    [] s = "X" -> "x"
    [] s = " Laptop" -> " laptop"
    [] s = "John@Example.com" -> "john@example.com"
    [] s = "Jane@Example.com" -> "jane@example.com"
    [] OTHER -> s
\* Array.prototype.splice(index, 1)
Splice(seq, index) == SubSeq(seq, 1, index - 1) \o SubSeq(seq, index + 1, Len(seq))

(* ------------------------------ schemas ------------------------------- *)
\* a field declaration: nn = declared non-null ("!"), kind of the result,
\* "of" = the composite type it yields, inn = list items declared non-null
Scalar(nn) == [nn |-> nn, kind |-> "scalar", of |-> "", inn |-> FALSE]
Object(nn, of) == [nn |-> nn, kind |-> "object", of |-> of, inn |-> FALSE]
ListOf(nn, of, inn) == [nn |-> nn, kind |-> "list", of |-> of, inn |-> inn]

\* module-07-error-handling: schema/typeDefs.ts
typeDefs_errors(type, field) ==
  CASE type = "Query" /\ field \in {"users", "products", "orders"} ->
         ListOf(TRUE, IF field = "users" THEN "User"
                      ELSE IF field = "products" THEN "Product" ELSE "Order", TRUE)
    [] type = "Query" /\ field = "user" -> Object(FALSE, "User")
    [] type = "Query" /\ field = "product" -> Object(FALSE, "Product")
    [] type = "Query" /\ field = "order" -> Object(FALSE, "Order")
    [] type = "Query" /\ field = "userOrError" -> Object(TRUE, "User")
    [] type = "Query" /\ field = "productWithStock" -> Object(TRUE, "Product")
    [] type = "Query" /\ field = "batchUsers" -> Object(TRUE, "BatchUsersResult")
    [] type = "Query" /\ field = "unreliableQuery" -> Scalar(TRUE)
    [] type = "Query" /\ field = "me" -> Object(TRUE, "User")
    [] type = "Query" /\ field = "adminStats" -> Scalar(TRUE)
    [] type = "Mutation" /\ field \in {"createOrder", "cancelOrder", "updateOrderStatus"} ->
         Object(TRUE, "OrderResponse")
    [] type = "Mutation" /\ field = "alwaysFails" -> Scalar(TRUE)
    [] type = "Mutation" /\ field = "createProduct" -> Object(TRUE, "Product")
    [] type = "OrderResponse" /\ field = "order" -> Object(FALSE, "Order")
    [] type = "Order" /\ field = "user" -> Object(TRUE, "User")
    [] type = "Order" /\ field = "product" -> Object(TRUE, "Product")
    [] type = "UserResult" /\ field = "user" -> Object(FALSE, "User")
    [] type = "UserResult" /\ field = "error" -> Scalar(FALSE)
    [] type = "ProductResult" /\ field = "product" -> Object(FALSE, "Product")
    [] type = "ProductResult" /\ field = "error" -> Scalar(FALSE)
    [] type = "BatchUsersResult" /\ field = "users" -> ListOf(TRUE, "UserResult", TRUE)
    [] OTHER -> Scalar(TRUE)

\* module-06-context: schema/typeDefs.ts
typeDefs_context(type, field) ==
  CASE type = "Query" /\ field = "requestInfo" -> Object(TRUE, "RequestInfo")
    [] type = "Query" /\ field \in {"me", "user"} -> Object(FALSE, "User")
    [] type = "Query" /\ field = "users" -> ListOf(TRUE, "User", TRUE)
    [] type = "Query" /\ field \in {"posts", "myPosts"} -> ListOf(TRUE, "Post", TRUE)
    [] type = "Query" /\ field = "post" -> Object(FALSE, "Post")
    [] type = "Mutation" /\ field \in {"createPost", "updatePost", "publishPost"} ->
         Object(TRUE, "PostMutationResponse")
    [] type = "Mutation" /\ field = "deletePost" -> Object(TRUE, "DeleteResponse")
    [] type = "User" /\ field = "posts" -> ListOf(TRUE, "Post", TRUE)
    [] type = "Post" /\ field = "author" -> Object(TRUE, "User")
    [] type = "RequestInfo" /\ field = "currentUser" -> Object(FALSE, "User")
    [] type = "PostMutationResponse" /\ field = "post" -> Object(FALSE, "Post")
    [] OTHER -> Scalar(TRUE)

\* module-06-context-02: schema/typeDefs.ts
typeDefs_jwt(type, field) ==
  CASE type = "Query" /\ field = "users" -> ListOf(TRUE, "User", TRUE)
    [] type = "Query" /\ field \in {"user", "me"} -> Object(FALSE, "User")
    [] type = "Query" /\ field = "adminOnly" -> Scalar(TRUE)
    [] OTHER -> Scalar(TRUE)

\* module-08-prisma-database: schema/typeDefs.ts
typeDefs_prisma(type, field) ==
  CASE type = "Query" /\ field = "users" -> ListOf(TRUE, "User", TRUE)
    [] type = "Query" /\ field \in {"user", "me"} -> Object(FALSE, "User")
    [] type = "Query" /\ field \in {"posts", "myPosts"} -> ListOf(TRUE, "Post", TRUE)
    [] type = "Query" /\ field = "post" -> Object(FALSE, "Post")
    [] type = "Query" /\ field = "comments" -> ListOf(TRUE, "Comment", TRUE)
    [] type = "Mutation" /\ field \in {"createUser", "updateUser"} ->
         Object(TRUE, "UserMutationResponse")
    [] type = "Mutation" /\ field \in {"deleteUser", "deletePost", "deleteComment"} ->
         Object(TRUE, "MutationResponse")
    [] type = "Mutation" /\ field \in {"createPost", "updatePost", "publishPost", "unpublishPost"} ->
         Object(TRUE, "PostMutationResponse")
    [] type = "Mutation" /\ field = "createComment" -> Object(TRUE, "CommentMutationResponse")
    [] type = "User" /\ field = "posts" -> ListOf(TRUE, "Post", TRUE)
    [] type = "User" /\ field = "comments" -> ListOf(TRUE, "Comment", TRUE)
    [] type = "Post" /\ field = "author" -> Object(TRUE, "User")
    [] type = "Post" /\ field = "comments" -> ListOf(TRUE, "Comment", TRUE)
    [] type = "Comment" /\ field = "author" -> Object(TRUE, "User")
    [] type = "Comment" /\ field = "post" -> Object(TRUE, "Post")
    [] type = "UserMutationResponse" /\ field = "user" -> Object(FALSE, "User")
    [] type = "PostMutationResponse" /\ field = "post" -> Object(FALSE, "Post")
    [] type = "CommentMutationResponse" /\ field = "comment" -> Object(FALSE, "Comment")
    [] OTHER -> Scalar(TRUE)

\* module-05-mutations: schema/typeDefs.ts
typeDefs_mutations(type, field) ==
  CASE type = "Query" /\ field \in {"users", "searchUsers"} -> ListOf(TRUE, "User", TRUE)
    [] type = "Query" /\ field = "user" -> Object(FALSE, "User")
    [] type = "Mutation" /\ field \in {"createUser", "updateUser"} ->
         Object(TRUE, "UserMutationResponse")
    [] type = "Mutation" /\ field = "deleteUser" -> Object(TRUE, "DeleteUserResponse")
    [] type = "UserMutationResponse" /\ field = "user" -> Object(FALSE, "User")
    [] type = "User" /\ field = "age" -> Scalar(FALSE)
    [] type = "DeleteUserResponse" /\ field = "deletedId" -> Scalar(FALSE)
    [] OTHER -> Scalar(TRUE)

\* the schema handed to createYoga by the server s
Schema(s, type, field) ==
  CASE s = "errors" -> typeDefs_errors(type, field)
    [] s = "context" -> typeDefs_context(type, field)
    [] s = "jwt" -> typeDefs_jwt(type, field)
    [] s = "prisma" -> typeDefs_prisma(type, field)
    [] s = "mutations" -> typeDefs_mutations(type, field)

(* ------------------- module-07-error-handling: errors ----------------- *)
\* errors/index.ts: the custom error classes (message, extensions.code)
AuthRequiredMsg == "Authentication required"
AuthenticationError(message) == Throw("UNAUTHENTICATED", message)
InsufficientPermissionsError(requiredRole) ==
  Throw("INSUFFICIENT_PERMISSIONS", "This action requires " \o requiredRole \o " role")
ValidationError(message) == Throw("VALIDATION_ERROR", message)
NotFoundError(resource, id) ==
  Throw("NOT_FOUND", resource \o " with id \"" \o id \o "\" not found")
ConflictError(message) == Throw("CONFLICT", message)
InsufficientStockError(productId) ==
  Throw("INSUFFICIENT_STOCK", "Insufficient stock for product " \o productId)
OrderCancelledError(orderId) ==
  Throw("ORDER_CANCELLED", "Order \"" \o orderId \o "\" has been cancelled and cannot be modified")
InternalError(message) == Throw("INTERNAL_ERROR", message)
\* extensions: { code, validationErrors: errors }
InvalidInputError(errors) ==
  [t |-> "throw", v |-> NullV,
   e |-> [code |-> "INVALID_INPUT", msg |-> "Invalid input provided",
          validationErrors |-> errors]]

(* -------------------- module-07-error-handling: data ------------------ *)
User(id, name, email, role) == [id |-> id, name |-> name, email |-> email, role |-> role]
Product(id, name, price, stock) == [id |-> id, name |-> name, price |-> price, stock |-> stock]
Order(id, userId, productId, quantity, status) ==
  [id |-> id, userId |-> userId, productId |-> productId, quantity |-> quantity,
   status |-> status]

\* data/index.ts (prices in cents)
users_errors ==
  << User("1", "Admin User", "admin@example.com", "admin"),
     User("2", "John Doe", "john@example.com", "user"),
     User("3", "Jane Smith", "jane@example.com", "user") >>
products_errors ==
  << Product("1", "Laptop", 99999, 10), Product("2", "Mouse", 2999, 50),
     Product("3", "Keyboard", 7999, 0), Product("4", "Monitor", 29999, 5) >>
orders_errors ==
  << Order("1", "2", "1", 1, "delivered"), Order("2", "2", "2", 2, "cancelled") >>
db_errors == [products |-> products_errors, orders |-> orders_errors, nextOrderId |-> 3]

\* index.ts: validateToken, on the token as the parts left after 'Bearer '
\* (a token holding a space is no key of tokenMap)
validateToken_errors(token) ==
  LET tokenMap == [t \in {"admin-token", "user-token", "jane-token"} |->
                     CASE t = "admin-token" -> "1" [] t = "user-token" -> "2"
                       [] t = "jane-token" -> "3"]
  IN IF Len(token) = 1 /\ token[1] \in DOMAIN tokenMap
     THEN Find(users_errors, LAMBDA u : u.id = tokenMap[token[1]])
     ELSE IF Len(token) = 1 /\ token[1] \in ObjectPrototype
          THEN Find(users_errors, LAMBDA u : u.id = Inherited(token[1]).id)
     ELSE NullV

\* authHeader?.startsWith('Bearer ') on the header split at single spaces
StartsWithBearer(h) == Len(h) >= 2 /\ h[1] = "Bearer"
\* authHeader.slice(7)
Slice7(h) == Tail(h)

\* index.ts: the context function of createYoga
context_errors(h) ==
  [currentUser |-> IF StartsWithBearer(h) THEN validateToken_errors(Slice7(h)) ELSE NullV]

\* index.ts: maskedErrors.maskError(error, message, isDev)
maskError(error, dev) ==
  IF dev THEN error ELSE error

(* ----------------- module-07-error-handling: resolvers ---------------- *)
\* every resolver yields its outcome and the store it leaves behind
Res(out, d) == [out |-> out, db |-> d]

\* a faulty variant of Query_user_errors: an absent user is an error
Query_user_errors_strict(a) ==
  IF Find(users_errors, LAMBDA u : u.id = a.id) = NullV THEN NotFoundError("User", a.id)
  ELSE Return(Obj(Find(users_errors, LAMBDA u : u.id = a.id)))

Query_user_errors(a) == Return(Box(Find(users_errors, LAMBDA u : u.id = a.id)))

Query_userOrError(a) ==
  LET user == Find(users_errors, LAMBDA u : u.id = a.id)
  IN IF user = NullV THEN NotFoundError("User", a.id) ELSE Return(Obj(user))

Query_productWithStock(a, d) ==
  LET product == Find(d.products, LAMBDA p : p.id = a.id)
  IN IF product = NullV THEN NotFoundError("Product", a.id)
     ELSE IF product.stock = 0 THEN NotFoundError("Product", a.id)
     ELSE Return(Obj(product))

\* a faulty variant of Query_batchUsers: ids that are not found are left
\* out of the results
Query_batchUsers_dropping(a) ==
  LET found == Filter(a.ids, LAMBDA id : Find(users_errors, LAMBDA u : u.id = id) # NullV)
      results == [i \in 1..Len(found) |->
                    [user |-> Find(users_errors, LAMBDA u : u.id = found[i]),
                     error |-> NullV]]
  IN Return(Obj([users |-> results, successCount |-> Len(results), errorCount |-> 0]))

Query_batchUsers(a) ==
  LET results == [i \in 1..Len(a.ids) |->
                    LET user == Find(users_errors, LAMBDA u : u.id = a.ids[i])
                    IN IF user # NullV THEN [user |-> user, error |-> NullV]
                       ELSE [user |-> NullV,
                             error |-> Str("User with id \"" \o a.ids[i] \o "\" not found")]]
      successCount == Len(Filter(results, LAMBDA r : r.user # NullV))
      errorCount == Len(Filter(results, LAMBDA r : r.error # NullV))
  IN Return(Obj([users |-> results, successCount |-> successCount,
                 errorCount |-> errorCount]))

\* Math.random() > 0.5 is the coin
Query_unreliableQuery(coin) ==
  IF coin THEN InternalError("Random failure occurred")
  ELSE Return(Str("Success! You got lucky."))

Query_me_errors(c) ==
  IF c.currentUser = NullV THEN AuthenticationError(AuthRequiredMsg)
  ELSE Return(Obj(c.currentUser))

Query_adminStats(c, d) ==
  IF c.currentUser = NullV THEN AuthenticationError(AuthRequiredMsg)
  ELSE IF c.currentUser.role # "admin" THEN InsufficientPermissionsError("admin")
  ELSE Return([k |-> "stats", users |-> Len(users_errors),
               products |-> Len(d.products), orders |-> Len(d.orders)])

OrderResponse(message, order) ==
  Return(Obj([success |-> TRUE, message |-> message, order |-> order]))

\* index of the first element of seq with the id
IndexOf(seq, id) == CHOOSE i \in 1..Len(seq) : seq[i].id = id /\ \A j \in 1..(i-1) : seq[j].id # id

\* createOrder without the stock test of lines 151-154
Mutation_createOrder_unchecked(a, c, d) ==
  LET productId == a.id
      quantity == a.n
      product == Find(d.products, LAMBDA p : p.id = productId)
  IN IF c.currentUser = NullV THEN Res(AuthenticationError(AuthRequiredMsg), d)
     ELSE IF quantity <= 0 THEN Res(ValidationError("Quantity must be greater than 0"), d)
     ELSE IF quantity > 100 THEN Res(ValidationError("Maximum quantity per order is 100"), d)
     ELSE IF product = NullV THEN Res(NotFoundError("Product", productId), d)
     ELSE LET order == Order(ToString(d.nextOrderId), c.currentUser.id, productId,
                             quantity, "pending")
              pi == IndexOf(d.products, productId)
          IN Res(OrderResponse("Order created successfully", order),
                 [products |-> [d.products EXCEPT ![pi].stock = @ - quantity],
                  orders |-> Append(d.orders, order),
                  nextOrderId |-> d.nextOrderId + 1])

Mutation_createOrder(a, c, d) ==
  LET productId == a.id
      quantity == a.n
      product == Find(d.products, LAMBDA p : p.id = productId)
  IN IF c.currentUser = NullV THEN Res(AuthenticationError(AuthRequiredMsg), d)
     ELSE IF quantity <= 0 THEN Res(ValidationError("Quantity must be greater than 0"), d)
     ELSE IF quantity > 100 THEN Res(ValidationError("Maximum quantity per order is 100"), d)
     ELSE IF product = NullV THEN Res(NotFoundError("Product", productId), d)
     ELSE IF product.stock < quantity THEN Res(InsufficientStockError(productId), d)
     ELSE LET order == Order(ToString(d.nextOrderId), c.currentUser.id, productId,
                             quantity, "pending")
              pi == IndexOf(d.products, productId)
          IN Res(OrderResponse("Order created successfully", order),
                 [products |-> [d.products EXCEPT ![pi].stock = @ - quantity],
                  orders |-> Append(d.orders, order),
                  nextOrderId |-> d.nextOrderId + 1])

\* cancelOrder without the test for an order that is already cancelled
Mutation_cancelOrder_again(a, c, d) ==
  LET order == Find(d.orders, LAMBDA o : o.id = a.id)
  IN IF c.currentUser = NullV THEN Res(AuthenticationError(AuthRequiredMsg), d)
     ELSE IF order = NullV THEN Res(NotFoundError("Order", a.id), d)
     ELSE IF order.userId # c.currentUser.id /\ c.currentUser.role # "admin"
          THEN Res(AuthenticationError("You can only cancel your own orders"), d)
     ELSE IF order.status = "delivered"
          THEN Res(ConflictError("Cannot cancel a delivered order"), d)
     ELSE LET oi == IndexOf(d.orders, a.id)
              product == Find(d.products, LAMBDA p : p.id = order.productId)
              restored == IF product = NullV THEN d.products
                          ELSE [d.products EXCEPT
                                  ![IndexOf(d.products, order.productId)].stock =
                                     @ + order.quantity]
              cancelled == [order EXCEPT !.status = "cancelled"]
          IN Res(OrderResponse("Order cancelled successfully", cancelled),
                 [d EXCEPT !.products = restored, !.orders[oi] = cancelled])

Mutation_cancelOrder(a, c, d) ==
  LET order == Find(d.orders, LAMBDA o : o.id = a.id)
  IN IF c.currentUser = NullV THEN Res(AuthenticationError(AuthRequiredMsg), d)
     ELSE IF order = NullV THEN Res(NotFoundError("Order", a.id), d)
     ELSE IF order.userId # c.currentUser.id /\ c.currentUser.role # "admin"
          THEN Res(AuthenticationError("You can only cancel your own orders"), d)
     ELSE IF order.status = "cancelled" THEN Res(OrderCancelledError(a.id), d)
     ELSE IF order.status = "delivered"
          THEN Res(ConflictError("Cannot cancel a delivered order"), d)
     ELSE LET oi == IndexOf(d.orders, a.id)
              product == Find(d.products, LAMBDA p : p.id = order.productId)
              restored == IF product = NullV THEN d.products
                          ELSE [d.products EXCEPT
                                  ![IndexOf(d.products, order.productId)].stock =
                                     @ + order.quantity]
              cancelled == [order EXCEPT !.status = "cancelled"]
          IN Res(OrderResponse("Order cancelled successfully", cancelled),
                 [d EXCEPT !.products = restored, !.orders[oi] = cancelled])

validStatuses == {"pending", "confirmed", "shipped", "delivered", "cancelled"}

Mutation_updateOrderStatus(a, c, d) ==
  LET order == Find(d.orders, LAMBDA o : o.id = a.id)
  IN IF c.currentUser = NullV THEN Res(AuthenticationError(AuthRequiredMsg), d)
     ELSE IF c.currentUser.role # "admin"
          THEN Res(AuthenticationError("Only admins can update order status"), d)
     ELSE IF order = NullV THEN Res(NotFoundError("Order", a.id), d)
     ELSE IF a.s \notin validStatuses THEN Res(ValidationError("Invalid status. Must be one of: pending, confirmed, "
                                  \o "shipped, delivered, cancelled"), d)
     ELSE IF order.status = "cancelled" THEN Res(OrderCancelledError(a.id), d)
     ELSE LET oi == IndexOf(d.orders, a.id)
              updated == [order EXCEPT !.status = a.s]
          IN Res(OrderResponse("Order status updated to " \o a.s, updated),
                 [d EXCEPT !.orders[oi] = updated])

Mutation_alwaysFails ==
  InternalError("This mutation always fails for demonstration purposes")

Mutation_createProduct(a, c, d) ==
  LET errors ==
        (IF a.name = "" \/ Len(Trim(a.name)) < 2
         THEN <<[field |-> "name", message |-> "Name must be at least 2 characters"]>>
         ELSE <<>>) \o
        (IF a.price <= 0
         THEN <<[field |-> "price", message |-> "Price must be greater than 0"]>>
         ELSE <<>>) \o
        (IF a.price > 1000000
         THEN <<[field |-> "price", message |-> "Price cannot exceed 1,000,000"]>>
         ELSE <<>>) \o
        (IF a.stock < 0
         THEN <<[field |-> "stock", message |-> "Stock cannot be negative"]>>
         ELSE <<>>)
      existing == Find(d.products, LAMBDA p : ToLowerCase(p.name) = ToLowerCase(a.name))
      product == Product(ToString(Len(d.products) + 1), Trim(a.name), a.price, a.stock)
  IN IF c.currentUser = NullV THEN Res(AuthenticationError(AuthRequiredMsg), d)
     ELSE IF c.currentUser.role # "admin"
          THEN Res(AuthenticationError("Only admins can create products"), d)
     ELSE IF Len(errors) > 0 THEN Res(InvalidInputError(errors), d)
     ELSE IF existing # NullV
          THEN Res(ConflictError("Product with name \"" \o a.name \o "\" already exists"), d)
     ELSE Res(Return(Obj(product)), [d EXCEPT !.products = Append(@, product)])

\* resolvers/types.ts: Order_Resolver
Order_Resolver_user(parent) == Return(Box(Find(users_errors, LAMBDA u : u.id = parent.userId)))
Order_Resolver_product(parent, d) ==
  Return(Box(Find(d.products, LAMBDA p : p.id = parent.productId)))

\* resolvers/index.ts: the resolver map, root fields
resolvers_errors(sel, c, d, coin) ==
  CASE sel.f = "user" -> Res(Query_user_errors(sel.a), d)
    [] sel.f = "orders" -> Res(Return(List(d.orders)), d)
    [] sel.f = "userOrError" -> Res(Query_userOrError(sel.a), d)
    [] sel.f = "productWithStock" -> Res(Query_productWithStock(sel.a, d), d)
    [] sel.f = "batchUsers" -> Res(Query_batchUsers(sel.a), d)
    [] sel.f = "unreliableQuery" -> Res(Query_unreliableQuery(coin), d)
    [] sel.f = "me" -> Res(Query_me_errors(c), d)
    [] sel.f = "adminStats" -> Res(Query_adminStats(c, d), d)
    [] sel.f = "createOrder" -> Mutation_createOrder(sel.a, c, d)
    [] sel.f = "cancelOrder" -> Mutation_cancelOrder(sel.a, c, d)
    [] sel.f = "updateOrderStatus" -> Mutation_updateOrderStatus(sel.a, c, d)
    [] sel.f = "alwaysFails" -> Res(Mutation_alwaysFails, d)
    [] sel.f = "createProduct" -> Mutation_createProduct(sel.a, c, d)

(* ------------------------ module-06-context-02 ------------------------ *)
AuthUser(id, email, role) == [id |-> id, email |-> email, role |-> role]

\* db/index.ts: the mock database
users_jwt ==
  << User("1", "Admin User", "admin@example.com", "admin"),
     User("2", "John Doe", "john@example.com", "user"),
     User("3", "Jane Smith", "jane@example.com", "user") >>
db_jwt == [users |-> users_jwt]

\* context/index.ts: verifyToken (tokenUserMap[token] || null)
verifyToken(token) ==
  IF Len(token) # 1 THEN NullV
  ELSE CASE token[1] = "admin-jwt-token" -> AuthUser("1", "admin@example.com", "admin")
         [] token[1] = "john-jwt-token" -> AuthUser("2", "john@example.com", "user")
         [] token[1] = "jane-jwt-token" -> AuthUser("3", "jane@example.com", "user")
         [] token[1] \in ObjectPrototype -> Inherited(token[1])
         [] OTHER -> NullV

\* context/index.ts: createContext; db is the module-level store handle
createContext_jwt(h) ==
  [db |-> "db",
   currentUser |-> IF StartsWithBearer(h) THEN verifyToken(Slice7(h)) ELSE NullV]

\* resolvers/query.ts
Query_users_jwt(d) == Return(List(d.users))
Query_user_jwt(a, d) == Return(Box(Find(d.users, LAMBDA u : u.id = a.id)))
\* a faulty variant of Query_me_jwt: an anonymous caller gets null
Query_me_jwt_silent(c, d) ==
  IF c.currentUser = NullV THEN Return(NullV)
  ELSE Return(Box(Find(d.users, LAMBDA u : u.id = c.currentUser.id)))
Query_me_jwt(c, d) ==
  IF c.currentUser = NullV
  THEN Throw("UNAUTHENTICATED",
             "Authentication required. Please provide a valid JWT token.")
  ELSE Return(Box(Find(d.users, LAMBDA u : u.id = c.currentUser.id)))
Query_adminOnly(c) ==
  IF c.currentUser = NullV THEN Throw("UNAUTHENTICATED", "Authentication required")
  ELSE IF c.currentUser.role # "admin" THEN Throw("FORBIDDEN", "Admin access required")
  ELSE Return(Str("Secret admin data! Only admins can see this."))

resolvers_jwt(sel, c, d) ==
  CASE sel.f = "users" -> Res(Query_users_jwt(d), d)
    [] sel.f = "user" -> Res(Query_user_jwt(sel.a, d), d)
    [] sel.f = "me" -> Res(Query_me_jwt(c, d), d)
    [] sel.f = "adminOnly" -> Res(Query_adminOnly(c), d)

(* -------------------------- module-06-context ------------------------- *)
Post(id, title, content, authorId, published) ==
  [id |-> id, title |-> title, content |-> content, authorId |-> authorId,
   published |-> published]

\* db/index.ts: usersData, postsData, nextPostId
usersData ==
  << User("1", "Admin User", "admin@example.com", "admin"),
     User("2", "John Doe", "john@example.com", "user"),
     User("3", "Jane Smith", "jane@example.com", "user") >>
postsData ==
  << Post("1", "Getting Started with GraphQL", "GraphQL is a query language for APIs...",
          "2", TRUE),
     Post("2", "Understanding Context in GraphQL Yoga",
          "Context is a powerful feature that allows...", "2", TRUE),
     Post("3", "Draft Post", "This is a draft post...", "3", FALSE) >>
createDatabase == [users |-> usersData, posts |-> postsData, nextPostId |-> 4]

\* services/auth.ts: authenticateRequest; parts = authHeader.split(' ')
authenticateRequest(authHeader) ==
  IF authHeader = <<>> THEN NullV
  ELSE IF Len(authHeader) # 2 \/ authHeader[1] # "Bearer" THEN NullV
  ELSE CASE authHeader[2] = "admin-token-123" -> AuthUser("1", "admin@example.com", "admin")
         [] authHeader[2] = "user-token-456" -> AuthUser("2", "john@example.com", "user")
         [] authHeader[2] = "user-token-789" -> AuthUser("3", "jane@example.com", "user")
         [] authHeader[2] \in ObjectPrototype -> Inherited(authHeader[2])
         [] OTHER -> NullV

\* services/logger.ts: createLogger closes over the request id
createLogger(requestId) == [requestId |-> requestId]

\* the values generateRequestId may return (time stamp and random suffix)
RequestIds == {"req_1_a", "req_2_b"}

\* context/index.ts: createContext, with the request id it generated
createContext(authHeader, requestId) ==
  [db |-> "db",
   logger |-> createLogger(requestId),
   currentUser |-> authenticateRequest(authHeader),
   request |-> [requestId |-> requestId]]

\* resolvers/query.ts
Query_requestInfo(c, d) ==
  Return(Obj([requestId |-> c.request.requestId,
              authenticated |-> c.currentUser # NullV,
              currentUser |-> IF c.currentUser # NullV
                              THEN Find(d.users, LAMBDA u : u.id = c.currentUser.id)
                              ELSE NullV]))
Query_me_context(c, d) ==
  IF c.currentUser = NullV THEN Return(NullV)
  ELSE Return(Box(Find(d.users, LAMBDA u : u.id = c.currentUser.id)))
Query_users_context(c, d) ==
  IF c.currentUser = NullV \/ c.currentUser.role # "admin"
  THEN Throw("FORBIDDEN", "Admin access required")
  ELSE Return(List(d.users))
Query_user_context(a, d) == Return(Box(Find(d.users, LAMBDA u : u.id = a.id)))
Query_posts_context(d) == Return(List(Filter(d.posts, LAMBDA post : post.published)))
Query_post_context(a, c, d) ==
  LET post == Find(d.posts, LAMBDA q : q.id = a.id)
  IN IF post # NullV /\ ~post.published
        /\ (c.currentUser = NullV
            \/ (c.currentUser.id # post.authorId /\ c.currentUser.role # "admin"))
     THEN Return(NullV)
     ELSE Return(Box(post))
Query_myPosts_context(c, d) ==
  IF c.currentUser = NullV THEN Throw("UNAUTHENTICATED", "Authentication required")
  ELSE Return(List(Filter(d.posts, LAMBDA q : q.authorId = c.currentUser.id)))

\* resolvers/mutation.ts
Mutation_publishPost_context(a, c, d) ==
  LET post == Find(d.posts, LAMBDA q : q.id = a.id)
  IN IF c.currentUser = NullV
     THEN Res(Throw("UNAUTHENTICATED", "Authentication required"), d)
     ELSE IF post = NullV THEN Res(Throw("NOT_FOUND", "Post not found"), d)
     ELSE IF post.authorId # c.currentUser.id /\ c.currentUser.role # "admin"
          THEN Res(Throw("FORBIDDEN", "Not authorized to publish this post"), d)
     ELSE LET index == IndexOf(d.posts, a.id)
              updatedPost == [post EXCEPT !.published = TRUE]
          IN Res(Return(Obj([success |-> TRUE, message |-> "Post published successfully",
                             post |-> updatedPost])),
                 [d EXCEPT !.posts[index] = updatedPost])

Mutation_createPost_context(a, c, d) ==
  LET input == a.input
      published == IF "published" \in input.has THEN input.published ELSE FALSE
      post == Post(ToString(d.nextPostId), Trim(input.title), Trim(input.content),
                   c.currentUser.id, published)
  IN IF c.currentUser = NullV
     THEN Res(Throw("UNAUTHENTICATED", "Authentication required"), d)
     ELSE IF input.title = "" \/ Len(Trim(input.title)) < 3
          THEN Res(Throw("VALIDATION_ERROR", "Title must be at least 3 characters"), d)
     ELSE IF input.content = "" \/ Len(Trim(input.content)) < 10
          THEN Res(Throw("VALIDATION_ERROR", "Content must be at least 10 characters"), d)
     ELSE Res(Return(Obj([success |-> TRUE, message |-> "Post created successfully",
                          post |-> post])),
              [d EXCEPT !.posts = Append(@, post), !.nextPostId = @ + 1])

\* a faulty variant of Mutation_updatePost_context: the ownership test is
\* missing, any authenticated caller may update
Mutation_updatePost_context_open(a, c, d) ==
  LET post == Find(d.posts, LAMBDA q : q.id = a.id)
  IN IF c.currentUser = NullV
     THEN Res(Throw("UNAUTHENTICATED", "Authentication required"), d)
     ELSE IF post = NullV THEN Res(Throw("NOT_FOUND", "Post not found"), d)
     ELSE LET index == IndexOf(d.posts, a.id)
              updatedPost == [post EXCEPT !.title = Trim(a.input.title)]
          IN Res(Return(Obj([success |-> TRUE, message |-> "Post updated successfully",
                             post |-> updatedPost])),
                 [d EXCEPT !.posts[index] = updatedPost])

Mutation_updatePost_context(a, c, d) ==
  LET post == Find(d.posts, LAMBDA q : q.id = a.id)
      input == a.input
  IN IF c.currentUser = NullV
     THEN Res(Throw("UNAUTHENTICATED", "Authentication required"), d)
     ELSE IF post = NullV THEN Res(Throw("NOT_FOUND", "Post not found"), d)
     ELSE IF post.authorId # c.currentUser.id /\ c.currentUser.role # "admin"
          THEN Res(Throw("FORBIDDEN", "Not authorized to update this post"), d)
     ELSE IF "title" \in input.has /\ Len(Trim(input.title)) < 3
          THEN Res(Throw("VALIDATION_ERROR", "Title must be at least 3 characters"), d)
     ELSE LET index == IndexOf(d.posts, a.id)
              updatedPost ==
                [post EXCEPT
                   !.title = IF "title" \in input.has THEN Trim(input.title) ELSE @,
                   !.content = IF "content" \in input.has THEN Trim(input.content) ELSE @,
                   !.published = IF "published" \in input.has THEN input.published ELSE @]
          IN Res(Return(Obj([success |-> TRUE, message |-> "Post updated successfully",
                             post |-> updatedPost])),
                 [d EXCEPT !.posts[index] = updatedPost])

Mutation_deletePost_context(a, c, d) ==
  LET post == Find(d.posts, LAMBDA q : q.id = a.id)
  IN IF c.currentUser = NullV
     THEN Res(Throw("UNAUTHENTICATED", "Authentication required"), d)
     ELSE IF post = NullV THEN Res(Throw("NOT_FOUND", "Post not found"), d)
     ELSE IF post.authorId # c.currentUser.id /\ c.currentUser.role # "admin"
          THEN Res(Throw("FORBIDDEN", "Not authorized to delete this post"), d)
     ELSE Res(Return(Obj([success |-> TRUE, message |-> "Post deleted successfully"])),
              [d EXCEPT !.posts = Splice(@, IndexOf(d.posts, a.id))])

\* resolvers/types.ts
\* User.posts without the filter of lines 10-15
User_Resolver_posts_all(parent, c, d) ==
  Return(List(Filter(d.posts, LAMBDA q : q.authorId = parent.id)))
User_Resolver_posts(parent, c, d) ==
  LET posts == Filter(d.posts, LAMBDA q : q.authorId = parent.id)
  IN IF c.currentUser # NullV
        /\ (c.currentUser.id = parent.id \/ c.currentUser.role = "admin")
     THEN Return(List(posts))
     ELSE Return(List(Filter(posts, LAMBDA post : post.published)))
Post_Resolver_author(parent, d) ==
  Return(Box(Find(d.users, LAMBDA u : u.id = parent.authorId)))

resolvers_context(sel, c, d) ==
  CASE sel.f = "requestInfo" -> Res(Query_requestInfo(c, d), d)
    [] sel.f = "me" -> Res(Query_me_context(c, d), d)
    [] sel.f = "users" -> Res(Query_users_context(c, d), d)
    [] sel.f = "user" -> Res(Query_user_context(sel.a, d), d)
    [] sel.f = "posts" -> Res(Query_posts_context(d), d)
    [] sel.f = "post" -> Res(Query_post_context(sel.a, c, d), d)
    [] sel.f = "myPosts" -> Res(Query_myPosts_context(c, d), d)
    [] sel.f = "publishPost" -> Mutation_publishPost_context(sel.a, c, d)
    [] sel.f = "createPost" -> Mutation_createPost_context(sel.a, c, d)
    [] sel.f = "updatePost" -> Mutation_updatePost_context(sel.a, c, d)
    [] sel.f = "deletePost" -> Mutation_deletePost_context(sel.a, c, d)

(* ---------------------- module-08-prisma-database --------------------- *)
\* prisma/seed.ts: the seeded rows, with the columns the resolvers read
\* (ids stand for the generated ones), in creation order
users_prisma ==
  << User("u1", "Admin User", "admin@example.com", "admin"),
     User("u2", "John Doe", "john@example.com", "user"),
     User("u3", "Jane Smith", "jane@example.com", "user") >>
posts_prisma ==
  << [id |-> "p1", title |-> "Getting Started with GraphQL", authorId |-> "u2",
      published |-> TRUE],
     [id |-> "p2", title |-> "Prisma with GraphQL Yoga", authorId |-> "u2",
      published |-> TRUE],
     [id |-> "p3", title |-> "Understanding Context in GraphQL", authorId |-> "u3",
      published |-> TRUE],
     [id |-> "p4", title |-> "Draft: Advanced Prisma Techniques", authorId |-> "u3",
      published |-> FALSE] >>
Comment(id, authorId, postId) == [id |-> id, authorId |-> authorId, postId |-> postId]
comments_prisma ==
  << Comment("c1", "u3", "p1"), Comment("c2", "u1", "p1"), Comment("c3", "u2", "p2"),
     Comment("c4", "u2", "p3") >>
db_prisma ==
  [users |-> users_prisma, posts |-> posts_prisma, nextUserId |-> 4,
   comments |-> comments_prisma, nextCommentId |-> 5]

\* a Prisma call issued while the database cannot be reached rejects
PrismaError == Throw("", "Can't reach database server")

\* orderBy: { createdAt: 'desc' } over rows kept in creation order
Desc(seq) == [i \in 1..Len(seq) |-> seq[Len(seq) + 1 - i]]

\* context/index.ts: validateToken, up to its await: the e-mail looked up
tokenMap_prisma(token) ==
  IF Len(token) # 1 THEN ""
  ELSE CASE token[1] = "admin-token" -> "admin@example.com"
         [] token[1] = "john-token" -> "john@example.com"
         [] token[1] = "jane-token" -> "jane@example.com"
         [] OTHER -> ""

\* validateToken after prisma.user.findUnique({ where: { email } }) resolved
validateToken_prisma(email, d) ==
  LET user == Find(d.users, LAMBDA u : u.email = email)
  IN IF user = NullV THEN NullV ELSE AuthUser(user.id, user.email, user.role)

\* the context createContext returns
createContext_prisma(currentUser, requestId) ==
  [prisma |-> "prisma", currentUser |-> currentUser, requestId |-> requestId]
\* createContext suspended in its await: request id drawn, nothing returned
Building(requestId) == [k |-> "building", requestId |-> requestId]

\* resolvers/mutation.ts: requireAuth, requireAdmin (NoOut = did not throw)
requireAuth(c) ==
  IF c.currentUser = NullV THEN Throw("UNAUTHENTICATED", "Authentication required")
  ELSE NoOut
requireAdmin(c) ==
  IF requireAuth(c) # NoOut THEN requireAuth(c)
  ELSE IF c.currentUser.role # "admin" THEN Throw("FORBIDDEN", "Admin access required")
  ELSE NoOut

\* the part of an async root resolver that runs before its first Prisma
\* call: the error it throws, or NoOut when it reaches the call
Begin_prisma(sel, c) ==
  CASE sel.f = "users" ->
         IF c.currentUser = NullV \/ c.currentUser.role # "admin"
         THEN Throw("FORBIDDEN", "Admin access required") ELSE NoOut
    [] sel.f \in {"me", "myPosts"} -> requireAuth(c)
    [] sel.f = "createUser" -> requireAdmin(c)
    [] sel.f \in {"deletePost", "unpublishPost", "createComment"} -> requireAuth(c)
    [] OTHER -> NoOut

Mutation_createUser_found(a, d) ==
  IF Find(d.users, LAMBDA u : u.email = a.s) # NullV
  THEN Res(Throw("CONFLICT", "User with email \"" \o a.s \o "\" already exists"), d)
  ELSE Res(NoOut, d)

\* prisma.user.create: email is @unique in schema.prisma
Mutation_createUser_create(a, d) ==
  IF Find(d.users, LAMBDA u : u.email = a.s) # NullV
  THEN Res(Throw("", "Unique constraint failed on the fields: (email)"), d)
  ELSE LET user == User("u" \o ToString(d.nextUserId), a.id, a.s, "user")
       IN Res(Return(Obj([success |-> TRUE, message |-> "User created successfully",
                          user |-> user])),
              [d EXCEPT !.users = Append(@, user), !.nextUserId = @ + 1])

\* Post.author and Comment.post are required relations of schema.prisma:
\* a post row cannot go while comments point at it, and a comment cannot be
\* created for a post id that has no row
\* deletePost: k = 1 after post.findUnique, k = 2 after post.delete
Mutation_deletePost_prisma(k, a, c, d) ==
  LET post == Find(d.posts, LAMBDA q : q.id = a.id)
  IN IF k = 1
     THEN IF post = NullV THEN Res(Throw("NOT_FOUND", "Post not found"), d)
          ELSE IF post.authorId # c.currentUser.id /\ c.currentUser.role # "admin"
               THEN Res(Throw("FORBIDDEN", "Not authorized to delete this post"), d)
          ELSE Res(NoOut, d)
     ELSE IF post = NullV THEN Res(Throw("", "Record to delete does not exist"), d)
     ELSE IF Find(d.comments, LAMBDA m : m.postId = a.id) # NullV
          THEN Res(Throw("", "Foreign key constraint failed"), d)
     ELSE Res(Return(Obj([success |-> TRUE, message |-> "Post deleted successfully"])),
              [d EXCEPT !.posts = Splice(@, IndexOf(d.posts, a.id))])

\* unpublishPost: k = 1 after post.findUnique, k = 2 after post.update
Mutation_unpublishPost(k, a, c, d) ==
  LET post == Find(d.posts, LAMBDA q : q.id = a.id)
  IN IF k = 1
     THEN IF post = NullV THEN Res(Throw("NOT_FOUND", "Post not found"), d)
          ELSE IF post.authorId # c.currentUser.id /\ c.currentUser.role # "admin"
               THEN Res(Throw("FORBIDDEN", "Not authorized to unpublish this post"), d)
          ELSE Res(NoOut, d)
     ELSE IF post = NullV THEN Res(Throw("", "Record to update not found"), d)
     ELSE LET updated == [post EXCEPT !.published = FALSE]
          IN Res(Return(Obj([success |-> TRUE, message |-> "Post unpublished successfully",
                             post |-> updated])),
                 [d EXCEPT !.posts[IndexOf(d.posts, a.id)] = updated])

\* createComment(input: { postId: a.id, content: a.s }): k = 1 after
\* post.findUnique, k = 2 after comment.create
Mutation_createComment(k, a, c, d) ==
  LET post == Find(d.posts, LAMBDA q : q.id = a.id)
  IN IF k = 1
     THEN IF post = NullV THEN Res(Throw("NOT_FOUND", "Post not found"), d)
          ELSE IF ~post.published
               THEN Res(Throw("FORBIDDEN", "Cannot comment on unpublished post"), d)
          ELSE Res(NoOut, d)
     ELSE IF post = NullV THEN Res(Throw("", "Foreign key constraint failed"), d)
     ELSE LET comment == Comment("c" \o ToString(d.nextCommentId), c.currentUser.id, a.id)
          IN Res(Return(Obj([success |-> TRUE, message |-> "Comment created successfully",
                             comment |-> comment])),
                 [d EXCEPT !.comments = Append(@, comment), !.nextCommentId = @ + 1])

\* Query.posts: where = { published: args.published }, or published only
\* when the argument is undefined
Query_posts_prisma(a, d) ==
  LET published == IF "published" \in DOMAIN a THEN a.published ELSE TRUE
  IN Return(List(Desc(Filter(d.posts, LAMBDA q : q.published = published))))

Query_post_prisma(a, c, d) ==
  LET post == Find(d.posts, LAMBDA q : q.id = a.id)
  IN IF post # NullV /\ ~post.published
        /\ (c.currentUser = NullV
            \/ (c.currentUser.id # post.authorId /\ c.currentUser.role # "admin"))
     THEN Return(NullV)
     ELSE Return(Box(post))

\* an async root resolver continues after its k-th Prisma call resolved
\* against the rows d: its outcome (NoOut = it awaits the next call)
Resume_prisma(sel, k, c, d) ==
  CASE sel.f = "users" -> Res(Return(List(Desc(d.users))), d)
    [] sel.f = "user" -> Res(Return(Box(Find(d.users, LAMBDA u : u.id = sel.a.id))), d)
    [] sel.f = "me" ->
         Res(Return(Box(Find(d.users, LAMBDA u : u.id = c.currentUser.id))), d)
    [] sel.f = "posts" -> Res(Query_posts_prisma(sel.a, d), d)
    [] sel.f = "post" -> Res(Query_post_prisma(sel.a, c, d), d)
    [] sel.f = "myPosts" ->
         Res(Return(List(Desc(Filter(d.posts,
                                     LAMBDA q : q.authorId = c.currentUser.id)))), d)
    [] sel.f = "createUser" ->
         IF k = 1 THEN Mutation_createUser_found(sel.a, d)
         ELSE Mutation_createUser_create(sel.a, d)
    [] sel.f = "deletePost" -> Mutation_deletePost_prisma(k, sel.a, c, d)
    [] sel.f = "unpublishPost" -> Mutation_unpublishPost(k, sel.a, c, d)
    [] sel.f = "createComment" -> Mutation_createComment(k, sel.a, c, d)

\* resolvers/types.ts: User.posts, Post.author (up = the call succeeds)
User_posts_prisma(parent, d, up) ==
  IF ~up THEN PrismaError
  ELSE Return(List(Desc(Filter(d.posts, LAMBDA q : q.authorId = parent.id))))
Post_author_prisma(parent, d, up) ==
  IF ~up THEN PrismaError
  ELSE Return(Box(Find(d.users, LAMBDA u : u.id = parent.authorId)))

(* -------------------------- module-05-mutations ----------------------- *)
\* data/users.ts: the in-memory users (age boxed, null when not given) and
\* the counter of generateId
User_mutations(id, name, email, age) == [id |-> id, name |-> name, email |-> email, age |-> age]
users_mutations ==
  << User_mutations("1", "John Doe", "john@example.com", Num(30)),
     User_mutations("2", "Jane Smith", "jane@example.com", Num(25)) >>
db_mutations == [users |-> users_mutations, nextId |-> 3]

\* resolvers/mutation.ts: isValidEmail, /^[^\s@]+@[^\s@]+\.[^\s@]+$/ on the
\* addresses the clients send and the store holds
isValidEmail(email) ==
  email \in {"john@example.com", "jane@example.com", "new@example.com",
             "John@Example.com", "Jane@Example.com"}

\* a faulty variant of emailExists: the addresses are compared as written
emailExists_exact(email, excludeId, d) ==
  \E n \in 1..Len(d.users) :
    d.users[n].email = email /\ Str(d.users[n].id) # excludeId

\* emailExists(email, excludeId?); excludeId is boxed, NullV = undefined
emailExists(email, excludeId, d) ==
  \E n \in 1..Len(d.users) :
    ToLowerCase(d.users[n].email) = ToLowerCase(email) /\ Str(d.users[n].id) # excludeId

Mutation_createUser_mutations(a, d) ==
  LET name == a.input.name
      email == a.input.email
      age == a.input.age
      newUser == User_mutations(ToString(d.nextId), Trim(name), ToLowerCase(email),
                                IF "age" \in a.input.has THEN Num(age) ELSE NullV)
  IN IF name = "" \/ Len(Trim(name)) < 2
     THEN Res(Throw("VALIDATION_ERROR", "Name must be at least 2 characters long"), d)
     ELSE IF ~isValidEmail(email)
          THEN Res(Throw("VALIDATION_ERROR", "Invalid email format"), d)
     ELSE IF emailExists(email, NullV, d)
          THEN Res(Throw("DUPLICATE_EMAIL",
                         "User with email \"" \o email \o "\" already exists"), d)
     ELSE IF "age" \in a.input.has /\ (age < 0 \/ age > 150)
          THEN Res(Throw("VALIDATION_ERROR", "Age must be between 0 and 150"), d)
     ELSE Res(Return(Obj([success |-> TRUE, message |-> "User created successfully",
                          user |-> newUser])),
              [users |-> Append(d.users, newUser), nextId |-> d.nextId + 1])

Mutation_updateUser_mutations(a, d) ==
  LET id == a.id
      has == a.input.has
      name == a.input.name
      email == a.input.email
      age == a.input.age
  IN IF \A n \in 1..Len(d.users) : d.users[n].id # id
     THEN Res(Throw("USER_NOT_FOUND", "User with id \"" \o id \o "\" not found"), d)
     ELSE IF "name" \in has /\ Len(Trim(name)) < 2
          THEN Res(Throw("VALIDATION_ERROR", "Name must be at least 2 characters long"), d)
     ELSE IF "email" \in has /\ ~isValidEmail(email)
          THEN Res(Throw("VALIDATION_ERROR", "Invalid email format"), d)
     ELSE IF "email" \in has /\ emailExists(email, Str(id), d)
          THEN Res(Throw("DUPLICATE_EMAIL",
                         "User with email \"" \o email \o "\" already exists"), d)
     ELSE IF "age" \in has /\ (age < 0 \/ age > 150)
          THEN Res(Throw("VALIDATION_ERROR", "Age must be between 0 and 150"), d)
     ELSE LET userIndex == IndexOf(d.users, id)
              updatedUser ==
                [d.users[userIndex] EXCEPT
                   !.name = IF "name" \in has THEN Trim(name) ELSE @,
                   !.email = IF "email" \in has THEN ToLowerCase(email) ELSE @,
                   !.age = IF "age" \in has THEN Num(age) ELSE @]
          IN Res(Return(Obj([success |-> TRUE, message |-> "User updated successfully",
                             user |-> updatedUser])),
                 [d EXCEPT !.users[userIndex] = updatedUser])

Mutation_deleteUser_mutations(a, d) ==
  IF \A n \in 1..Len(d.users) : d.users[n].id # a.id
  THEN Res(Throw("USER_NOT_FOUND", "User with id \"" \o a.id \o "\" not found"), d)
  ELSE Res(Return(Obj([success |-> TRUE, message |-> "User deleted successfully",
                       deletedId |-> a.id])),
           [d EXCEPT !.users = Splice(@, IndexOf(d.users, a.id))])

\* resolvers/index.ts: the resolver map, root fields
resolvers_mutations(sel, d) ==
  CASE sel.f = "users" -> Res(Return(List(d.users)), d)
    [] sel.f = "createUser" -> Mutation_createUser_mutations(sel.a, d)
    [] sel.f = "updateUser" -> Mutation_updateUser_mutations(sel.a, d)
    [] sel.f = "deleteUser" -> Mutation_deleteUser_mutations(sel.a, d)

(* --------------------------- the servers ------------------------------ *)
\* the tokens each server's lookup table knows: admin, John, Jane
Tokens(s) ==
  CASE s = "errors" -> <<"admin-token", "user-token", "jane-token">>
    [] s = "context" -> <<"admin-token-123", "user-token-456", "user-token-789">>
    [] s = "jwt" -> <<"admin-jwt-token", "john-jwt-token", "jane-jwt-token">>
    [] s = "prisma" -> <<"admin-token", "john-token", "jane-token">>

\* Authorization headers a client sends (<<>> = no header), split at spaces;
\* the clients of modules 06 and 07 also try another scheme, a third part
\* and a token that names a member of Object.prototype
Headers(s) ==
  { <<>>, <<"Bearer", Tokens(s)[1]>>, <<"Bearer", Tokens(s)[2]>>,
    <<"Bearer", Tokens(s)[3]>>, <<"Bearer", "bogus">> } \cup
  (IF s = "prisma" THEN {}
   ELSE { <<"Basic", Tokens(s)[1]>>, <<"Bearer", Tokens(s)[1], "x">>,
          <<"Bearer", "constructor">> })

\* top-level selections a client sends
QuerySels(s) ==
  CASE s = "errors" ->
    { Sel("me", NoArg, <<"id">>), Sel("adminStats", NoArg, <<>>),
      Sel("userOrError", Arg("1", 0, ""), <<"id">>),
      Sel("user", Arg("999", 0, ""), <<"name">>),
      Sel("unreliableQuery", NoArg, <<>>),
      Sel("orders", NoArg, <<"user", "product">>) }
    [] s = "context" ->
    { Sel("requestInfo", NoArg, <<"requestId", "currentUser">>),
      Sel("me", NoArg, <<"id", "posts">>),
      Sel("users", NoArg, <<"id">>),
      Sel("posts", NoArg, <<"title", "author">>),
      Sel("post", Arg("3", 0, ""), <<"title">>),
      Sel("myPosts", NoArg, <<"title">>) }
    [] s = "jwt" ->
    { Sel("me", NoArg, <<"id">>), Sel("users", NoArg, <<"name">>),
      Sel("user", Arg("999", 0, ""), <<"name">>), Sel("adminOnly", NoArg, <<>>) }
    [] s = "prisma" ->
    { Sel("me", NoArg, <<"id", "posts">>), Sel("users", NoArg, <<"name">>),
      Sel("posts", NoArg, <<"title", "author">>),
      Sel("post", Arg("p4", 0, ""), <<"title">>), Sel("myPosts", NoArg, <<"title">>) }

MutationSels(s) ==
  CASE s = "errors" ->
    { Sel("createOrder", Arg("1", 1, ""), <<"success", "order">>),
      Sel("createOrder", Arg("4", 3, ""), <<"success">>),
      Sel("cancelOrder", Arg("1", 0, ""), <<"success">>),
      Sel("cancelOrder", Arg("3", 0, ""), <<"order">>),
      Sel("updateOrderStatus", Arg("3", 0, "shipped"), <<"order">>),
      Sel("alwaysFails", NoArg, <<>>) }
    [] s = "context" ->
    { Sel("publishPost", Arg("3", 0, ""), <<"success", "post">>),
      Sel("publishPost", Arg("1", 0, ""), <<"success">>),
      Sel("publishPost", Arg("999", 0, ""), <<"success">>) }
    [] s = "jwt" -> {}
    [] s = "prisma" ->
    { Sel("createUser", Arg("New User", 0, "new@example.com"), <<"success", "user">>),
      Sel("createUser", Arg("John Two", 0, "john@example.com"), <<"success">>) }

SeqsUpTo(S, n) == UNION { [1..m -> S] : m \in 1..n }

\* the operations a client sends: a query or a mutation, 1..MaxSel selections
Docs(s) ==
  { [kind |-> "query", sels |-> q] : q \in SeqsUpTo(QuerySels(s), MaxSel) } \cup
  { [kind |-> "mutation", sels |-> m] : m \in SeqsUpTo(MutationSels(s), MaxSel) }

\* the clients of the concurrent specification: fewer credentials and
\* one-selection operations on the fields that read per-request data
HeadersConc(s) == { <<>>, <<"Bearer", Tokens(s)[1]>>, <<"Bearer", Tokens(s)[3]>> }
DocsConc(s) ==
  { [kind |-> "query", sels |-> <<q>>] :
      q \in { x \in QuerySels(s) : x.f \in {"requestInfo", "me", "myPosts"} } } \cup
  { [kind |-> "mutation", sels |-> <<m>>] :
      m \in { x \in MutationSels(s) : x.a.id = "3" } }
NoDoc == [kind |-> "none", sels |-> <<>>]

\* the clients of the store specification: the three known callers and an
\* anonymous one, sending the writes of modules 07 and 06 and batch reads
HeadersStore(s) ==
  { <<>>, <<"Bearer", Tokens(s)[1]>>, <<"Bearer", Tokens(s)[2]>>,
    <<"Bearer", Tokens(s)[3]>> }
IdLists == SeqsUpTo({"1", "999"}, 2) \cup { <<>>, <<"1", "2", "999", "3">> }
StoreQuerySels(s) ==
  CASE s = "errors" ->
    { Sel("batchUsers", ArgIds(ids), <<"users", "successCount", "errorCount">>) :
        ids \in IdLists }
    [] s = "context" ->
    { Sel("user", Arg("3", 0, ""), <<"name", "posts">>),
      Sel("post", Arg("3", 0, ""), <<"title", "author">>),
      Sel("posts", NoArg, <<"title", "author">>),
      Sel("myPosts", NoArg, <<"title">>),
      Sel("me", NoArg, <<"id", "posts">>) }
StoreMutationSels(s) ==
  CASE s = "errors" ->
    { Sel("cancelOrder", Arg("1", 0, ""), <<"success">>),
      Sel("updateOrderStatus", Arg("1", 0, "cancelled"), <<"success", "order">>),
      Sel("createProduct", ArgProduct("X", -10, -5), <<"id", "name">>),
      Sel("createProduct", ArgProduct("Webcam", 4999, 7), <<"id", "name">>),
      Sel("createProduct", ArgProduct("laptop", 100, 1), <<"id">>),
      Sel("createProduct", ArgProduct(" Laptop", 100, 1), <<"id", "name">>),
      Sel("createOrder", Arg("1", 2, ""), <<"success", "order">>),
      Sel("createOrder", Arg("3", 1, ""), <<"success">>),
      Sel("createOrder", Arg("4", 101, ""), <<"success">>),
      Sel("cancelOrder", Arg("3", 0, ""), <<"success", "order">>),
      Sel("cancelOrder", Arg("2", 0, ""), <<"success">>),
      Sel("updateOrderStatus", Arg("3", 0, "cancelled"), <<"success", "order">>),
      Sel("updateOrderStatus", Arg("2", 0, "shipped"), <<"success">>),
      Sel("updateOrderStatus", Arg("2", 0, "archived"), <<"success">>) }
    [] s = "context" ->
    { Sel("updatePost", ArgInput("1", PostInput({"title"}, "Hacked!", "", FALSE)),
          <<"success", "post">>),
      Sel("updatePost", ArgInput("3", PostInput({"title", "published"}, "  Hi  ", "", TRUE)),
          <<"success">>),
      Sel("updatePost", ArgInput("1", PostInput({"content"}, "", "Short", FALSE)),
          <<"success", "post">>),
      Sel("deletePost", Arg("1", 0, ""), <<"success">>),
      Sel("publishPost", Arg("3", 0, ""), <<"success", "post">>),
      Sel("createPost",
          ArgInput("", PostInput({"title", "content"}, "New Post", "Some content here", FALSE)),
          <<"success", "post">>) }
\* the clients of the race specification: the admin, Jane and John, each
\* sending one read or write of module 08
HeadersRace ==
  { <<"Bearer", "admin-token">>, <<"Bearer", "jane-token">>, <<"Bearer", "john-token">> }
DocsRace ==
  { [kind |-> "query", sels |-> <<q>>] :
      q \in { Sel("posts", ArgPublished(FALSE), <<"title">>),
              Sel("user", Arg("u3", 0, ""), <<"name", "posts">>),
              Sel("post", Arg("p4", 0, ""), <<"title">>) } } \cup
  { [kind |-> "mutation", sels |-> <<m>>] :
      m \in { Sel("createUser", Arg("New User", 0, "new@example.com"), <<"success">>),
              Sel("createComment", Arg("p3", 0, "Nice post"), <<"success">>),
              Sel("unpublishPost", Arg("p3", 0, ""), <<"success">>),
              Sel("deletePost", Arg("p3", 0, ""), <<"success">>) } }
\* the clients of module-05: no credentials; they create, update and
\* delete users, with addresses that differ from stored ones in case only
UserMutationSels ==
  { Sel("createUser",
        ArgInput("", UserInput({"name", "email"}, "Another John", "John@Example.com", 0)),
        <<"success", "user">>),
    Sel("createUser",
        ArgInput("", UserInput({"name", "email", "age"}, "New User", "new@example.com", 41)),
        <<"success", "user">>),
    Sel("createUser",
        ArgInput("", UserInput({"name", "email"}, "Test", "invalid-email", 0)),
        <<"success">>),
    Sel("updateUser",
        ArgInput("1", UserInput({"email"}, "", "John@Example.com", 0)),
        <<"success", "user">>),
    Sel("updateUser",
        ArgInput("2", UserInput({"email"}, "", "John@Example.com", 0)),
        <<"success">>),
    Sel("updateUser",
        ArgInput("1", UserInput({"name", "email"}, "Johnny", "Jane@Example.com", 0)),
        <<"success">>),
    Sel("updateUser",
        ArgInput("1", UserInput({"email", "age"}, "", "new@example.com", 31)),
        <<"success", "user">>),
    Sel("updateUser", ArgInput("999", UserInput({"name"}, "Test", "", 0)), <<"success">>),
    Sel("deleteUser", Arg("1", 0, ""), <<"success", "deletedId">>) }
DocsUsers ==
  { [kind |-> "query", sels |-> <<Sel("users", NoArg, <<"id", "email">>)>>] } \cup
  { [kind |-> "mutation", sels |-> m] : m \in SeqsUpTo(UserMutationSels, MaxSel) }

DocsStore(s) ==
  { [kind |-> "query", sels |-> <<q>>] : q \in StoreQuerySels(s) } \cup
  { [kind |-> "mutation", sels |-> m] : m \in SeqsUpTo(StoreMutationSels(s), MaxSel) }

RootType(kind) == IF kind = "query" THEN "Query" ELSE "Mutation"

\* response key of the i-th selection: the field name, aliased when the
\* document selects the field twice
Key(sels, i) ==
  IF \E j \in 1..(i-1) : sels[j].f = sels[i].f
  THEN sels[i].f \o ToString(i) ELSE sels[i].f

InitialDb(s) ==
  CASE s = "errors" -> db_errors
    [] s = "context" -> createDatabase
    [] s = "jwt" -> db_jwt
    [] s = "prisma" -> db_prisma
    [] s = "mutations" -> db_mutations

\* the resolver map of server s, root fields
RootResolver(s, sel, c, d, coin) ==
  CASE s = "errors" -> resolvers_errors(sel, c, d, coin)
    [] s = "context" -> resolvers_context(sel, c, d)
    [] s = "jwt" -> resolvers_jwt(sel, c, d)
    [] s = "mutations" -> resolvers_mutations(sel, d)

(* -------------------- field completion and errors --------------------- *)
FieldError(path, e) ==
  IF "validationErrors" \in DOMAIN e
  THEN [path |-> path, code |-> e.code, msg |-> e.msg,
        validationErrors |-> e.validationErrors]
  ELSE [path |-> path, code |-> e.code, msg |-> e.msg]
\* the error recorded when a non-null field resolves to null
NullError(path) ==
  [path |-> path, code |-> "", msg |-> "Cannot return null for non-nullable field"]
Val(x) == [k |-> "val", v |-> x]
Completed(data, errs, bubble) == [data |-> data, errs |-> errs, bubble |-> bubble]
NoRes == Completed(NullV, {}, FALSE)

\* no resolver bound to (type, field): property lookup on the parent
DefaultResolver(s, type, field, parent) ==
  LET decl == Schema(s, type, field)
  IN IF field \notin DOMAIN parent THEN Return(NullV)
     ELSE IF decl.kind = "object" THEN Return(Box(parent[field]))
     ELSE IF decl.kind = "list" THEN Return(List(parent[field]))
     ELSE Return(Val(parent[field]))

\* the resolver map of server s, fields of composite types; up = dbUp
ChildResolver(s, type, field, parent, c, d, up) ==
  CASE s = "errors" /\ type = "Order" /\ field = "user" -> Order_Resolver_user(parent)
    [] s = "errors" /\ type = "Order" /\ field = "product" -> Order_Resolver_product(parent, d)
    [] s = "context" /\ type = "User" /\ field = "posts" -> User_Resolver_posts(parent, c, d)
    [] s = "context" /\ type = "Post" /\ field = "author" -> Post_Resolver_author(parent, d)
    [] s = "prisma" /\ type = "User" /\ field = "posts" -> User_posts_prisma(parent, d, up)
    [] s = "prisma" /\ type = "Post" /\ field = "author" -> Post_author_prisma(parent, d, up)
    [] OTHER -> DefaultResolver(s, type, field, parent)

\* a faulty variant of CompleteLeaf: a failed field is nulled in place
\* whatever its declaration
CompleteLeaf_inplace(s, type, field, out, path) ==
  IF out.t = "throw" THEN Completed(NullV, {FieldError(path, out.e)}, FALSE)
  ELSE IF out.v.k = "null"
       THEN Completed(NullV, IF Schema(s, type, field).nn THEN {NullError(path)} ELSE {},
                      FALSE)
  ELSE Completed(out.v, {}, FALSE)

\* a faulty variant of CompleteLeaf: a thrown error always nulls the parent
CompleteLeaf_bubbling(s, type, field, out, path) ==
  IF out.t = "throw" THEN Completed(NullV, {FieldError(path, out.e)}, TRUE)
  ELSE IF out.v.k = "null"
       THEN Completed(NullV, IF Schema(s, type, field).nn THEN {NullError(path)} ELSE {},
                      Schema(s, type, field).nn)
  ELSE Completed(out.v, {}, FALSE)

\* Error Propagation Rules: a failed field is null if it is nullable,
\* otherwise the failure bubbles to its parent
CompleteLeaf(s, type, field, out, path) ==
  LET decl == Schema(s, type, field)
  IN IF out.t = "throw" THEN Completed(NullV, {FieldError(path, out.e)}, decl.nn)
     ELSE IF out.v.k = "null"
          THEN Completed(NullV, IF decl.nn THEN {NullError(path)} ELSE {}, decl.nn)
     ELSE Completed(out.v, {}, FALSE)

\* an object value with the selected fields sub; bubble = some non-null
\* field of it failed, so the object itself is nulled
CompleteObject(s, type, o, sub, path, c, d, up) ==
  LET cr == [j \in 1..Len(sub) |->
               CompleteLeaf(s, type, sub[j],
                            ChildResolver(s, type, sub[j], o, c, d, up),
                            Append(path, sub[j]))]
      errs == UNION { cr[j].errs : j \in 1..Len(sub) }
  IN IF \E j \in 1..Len(sub) : cr[j].bubble
     THEN Completed(NullV, errs, TRUE)
     ELSE Completed([k |-> "obj", o |-> o, ch |-> [j \in 1..Len(sub) |-> cr[j].data]],
                    errs, FALSE)

\* a root field with outcome out of its resolver
CompleteField(s, type, sel, key, out, c, d, up) ==
  LET decl == Schema(s, type, sel.f)
      path == <<key>>
  IN IF out.t = "throw" \/ out.v.k = "null" \/ decl.kind = "scalar"
     THEN CompleteLeaf(s, type, sel.f, out, path)
     ELSE IF decl.kind = "object"
     THEN LET co == CompleteObject(s, decl.of, out.v.o, sel.sub, path, c, d, up)
          IN Completed(co.data, co.errs, co.bubble /\ decl.nn)
     ELSE LET n == Len(out.v.l)
              ci == [i \in 1..n |->
                       CompleteObject(s, decl.of, out.v.l[i], sel.sub,
                                      Append(path, ToString(i - 1)), c, d, up)]
              errs == UNION { ci[i].errs : i \in 1..n }
          IN IF decl.inn /\ \E i \in 1..n : ci[i].bubble
             THEN Completed(NullV, errs, decl.nn)
             ELSE Completed([k |-> "list", items |-> [i \in 1..n |-> ci[i].data]],
                            errs, FALSE)

\* the errors that leave the server: the errors server installs maskError
Masked(s, dev, e) == IF s = "errors" THEN maskError(e, dev) ELSE e

\* the response envelope of a request whose root fields f have all settled
Envelope(s, dev, f) ==
  [data |-> IF \E i \in 1..Len(f) : f[i].res.bubble THEN NullV
            ELSE [k |-> "obj", ch |-> [i \in 1..Len(f) |-> f[i].res.data]],
   errors |-> { Masked(s, dev, e) : e \in UNION { f[i].res.errs : i \in 1..Len(f) } }]

(* --------------------------- the pipeline ----------------------------- *)
Pending == [st |-> "pending", k |-> 0, out |-> NoOut, loc |-> NullV, res |-> NoRes]
Settled(out, res) == [st |-> "settled", k |-> 0, out |-> out, loc |-> NullV, res |-> res]

Finished(r) == pc[r] \in {"idle", "done", "failed"}

\* a request arrives with header h and document d
Arrive(r, h, d) ==
  /\ nreq' = nreq + 1
  /\ pc' = [pc EXCEPT ![r] = "ctx"]
  /\ hdr' = [hdr EXCEPT ![r] = h]
  /\ doc' = [doc EXCEPT ![r] = d]
  /\ ctx' = [ctx EXCEPT ![r] = NoCtx]
  /\ fld' = [fld EXCEPT ![r] = [i \in 1..Len(d.sels) |-> Pending]]
  /\ resp' = [resp EXCEPT ![r] = NoResp]
  /\ builds' = [builds EXCEPT ![r] = 0]
  /\ seen' = [seen EXCEPT ![r] = {}]
  /\ fault' = [fault EXCEPT ![r] = FALSE]
  /\ UNCHANGED <<srv, isDev, dbUp, db, conc>>

\* a faulty variant of NeedsContext: the factory is called again for a
\* request that is already being resolved
NeedsContext_again(r) == pc[r] \in {"ctx", "exec"}

\* "Once per request, before resolvers execute": the factory is due for a
\* request that was received and has no context yet
NeedsContext(r) == pc[r] = "ctx"

\* a faulty variant of Bind: one module-level context that every request
\* in flight reads, overwritten by the latest factory call
Bind_shared(c, r, v) == [q \in DOMAIN c |-> IF q = r \/ c[q] # NoCtx THEN v ELSE c[q]]

\* "Each request gets its own context instance": the value the factory
\* returned for request r becomes the context of r
Bind(c, r, v) == [c EXCEPT ![r] = v]

\* a faulty variant of ContextAfter: the resolver signs the caller out by
\* assigning to the context it was handed
ContextAfter_assigned(sel, c) ==
  IF "currentUser" \in DOMAIN c THEN [c EXCEPT !.currentUser = NullV] ELSE c

\* the context object after the resolver of sel ran on it: resolvers read
\* it (const { currentUser, db, logger } = context) and assign neither to
\* it nor to its fields ("Don't mutate context")
ContextAfter(sel, c) == c

\* the server accepts a request while it has a free slot
Receive(r) ==
  /\ Finished(r)
  /\ nreq < MaxReqs
  /\ IF conc THEN (r = 1 \/ (r > 1 /\ pc[r - 1] # "idle"))
     ELSE r = 1
  /\ \E h \in (IF conc THEN HeadersConc(srv) ELSE Headers(srv)) :
       \E d \in (IF conc THEN DocsConc(srv) ELSE Docs(srv)) : Arrive(r, h, d)

\* the server accepts a request of the store specification's clients
ReceiveStore(r) ==
  /\ Finished(r)
  /\ nreq < MaxReqs
  /\ r = 1
  /\ \E h \in HeadersStore(srv) : \E d \in DocsStore(srv) : Arrive(r, h, d)

\* the server of module-05 accepts a request of its clients
ReceiveUsers(r) ==
  /\ Finished(r)
  /\ nreq < MaxReqs
  /\ r = 1
  /\ \E d \in DocsUsers : Arrive(r, <<>>, d)

\* the server accepts a request of the race specification's clients while
\* another one may be in flight
ReceiveRace(r) ==
  /\ Finished(r)
  /\ nreq < MaxReqs
  /\ (r = 1 \/ (r > 1 /\ pc[r - 1] # "idle"))
  /\ \E h \in HeadersRace : \E d \in DocsRace : Arrive(r, h, d)

\* module-07: createYoga({ context: async ({ request }) => ... }) runs for
\* the request; the function holds no await
Context_errors(r) ==
  /\ srv = "errors"
  /\ NeedsContext(r)
  /\ ctx' = Bind(ctx, r, context_errors(hdr[r]))
  /\ builds' = [builds EXCEPT ![r] = @ + 1]
  /\ pc' = [pc EXCEPT ![r] = "exec"]
  /\ UNCHANGED <<srv, isDev, dbUp, db, nreq, conc, hdr, doc, fld, resp, seen, fault>>

\* a faulty variant of CanStart: mutation fields start like query fields
CanStart_parallel(kind, f, i) == TRUE

\* "Mutations run sequentially (unlike queries which can run in parallel)"
CanStart(kind, f, i) ==
  kind = "mutation" => \A j \in 1..(i - 1) : f[j].st = "settled"

\* a synchronous root resolver is called with the request's context and
\* runs to its end; the value it returns is completed in the same turn
Invoke(r, i) ==
  /\ srv # "prisma"
  /\ pc[r] = "exec"
  /\ i \in 1..Len(doc[r].sels)
  /\ fld[r][i].st = "pending"
  /\ CanStart(doc[r].kind, fld[r], i)
  /\ \E coin \in BOOLEAN :
       LET sel == doc[r].sels[i]
           rr == RootResolver(srv, sel, ctx[r], db, coin)
           res == CompleteField(srv, RootType(doc[r].kind), sel, Key(doc[r].sels, i),
                                rr.out, ctx[r], rr.db, dbUp)
       IN /\ db' = rr.db
          /\ fld' = [fld EXCEPT ![r][i] = Settled(rr.out, res)]
  /\ seen' = [seen EXCEPT ![r] = @ \cup {ctx[r]}]
  /\ ctx' = [ctx EXCEPT ![r] = ContextAfter(doc[r].sels[i], @)]
  /\ UNCHANGED <<srv, isDev, dbUp, nreq, conc, pc, hdr, doc, resp, builds, fault>>

\* module-06-context: createYoga({ schema, context: createContext }); the
\* factory holds no await and runs to its end in one turn
Context_context(r) ==
  /\ srv = "context"
  /\ NeedsContext(r)
  /\ \E requestId \in RequestIds :
       ctx' = Bind(ctx, r, createContext(hdr[r], requestId))
  /\ builds' = [builds EXCEPT ![r] = @ + 1]
  /\ pc' = [pc EXCEPT ![r] = "exec"]
  /\ UNCHANGED <<srv, isDev, dbUp, db, nreq, conc, hdr, doc, fld, resp, seen, fault>>

\* module-05: createYoga({ schema }) names no context function; the
\* resolvers are handed the server's initial context
Context_mutations(r) ==
  /\ srv = "mutations"
  /\ NeedsContext(r)
  /\ ctx' = Bind(ctx, r, [request |-> "request"])
  /\ builds' = [builds EXCEPT ![r] = @ + 1]
  /\ pc' = [pc EXCEPT ![r] = "exec"]
  /\ UNCHANGED <<srv, isDev, dbUp, db, nreq, conc, hdr, doc, fld, resp, seen, fault>>

\* module-06-context-02: the same wiring around its createContext
Context_jwt(r) ==
  /\ srv = "jwt"
  /\ NeedsContext(r)
  /\ ctx' = Bind(ctx, r, createContext_jwt(hdr[r]))
  /\ builds' = [builds EXCEPT ![r] = @ + 1]
  /\ pc' = [pc EXCEPT ![r] = "exec"]
  /\ UNCHANGED <<srv, isDev, dbUp, db, nreq, conc, hdr, doc, fld, resp, seen, fault>>

\* module-08: createContext up to its await; a token the table does not
\* know needs no lookup
Context_prisma(r) ==
  /\ srv = "prisma"
  /\ NeedsContext(r)
  /\ builds' = [builds EXCEPT ![r] = @ + 1]
  /\ \E requestId \in RequestIds :
       IF StartsWithBearer(hdr[r]) /\ tokenMap_prisma(Slice7(hdr[r])) # ""
       THEN /\ ctx' = Bind(ctx, r, Building(requestId))
            /\ pc' = [pc EXCEPT ![r] = "ctxwait"]
       ELSE /\ ctx' = Bind(ctx, r, createContext_prisma(NullV, requestId))
            /\ pc' = [pc EXCEPT ![r] = "exec"]
  /\ UNCHANGED <<srv, isDev, dbUp, db, nreq, conc, hdr, doc, fld, resp, seen, fault>>

\* the response to a request whose context could not be built
ContextFailure == [data |-> NullV, errors |-> {FieldError(<<>>, PrismaError.e)}]

\* a faulty variant of ContextLookup: the rejection is swallowed and the
\* request goes on as an anonymous one
ContextLookup_swallowed(up, email, d, requestId) ==
  [pc |-> "exec", failed |-> ~up,
   ctx |-> createContext_prisma(IF up THEN validateToken_prisma(email, d) ELSE NullV,
                                requestId)]

\* createContext after its await: the lookup resolved (up) or rejected; a
\* rejection leaves createContext without a return value
ContextLookup(up, email, d, requestId) ==
  IF up
  THEN [pc |-> "exec", failed |-> FALSE,
        ctx |-> createContext_prisma(validateToken_prisma(email, d), requestId)]
  ELSE [pc |-> "failed", failed |-> TRUE, ctx |-> Building(requestId)]

\* the identity lookup of createContext settles
ContextLookup_prisma(r) ==
  /\ srv = "prisma"
  /\ pc[r] = "ctxwait"
  /\ LET l == ContextLookup(dbUp, tokenMap_prisma(Slice7(hdr[r])), db, ctx[r].requestId)
     IN /\ pc' = [pc EXCEPT ![r] = l.pc]
        /\ ctx' = Bind(ctx, r, l.ctx)
        /\ fault' = [fault EXCEPT ![r] = l.failed]
        /\ resp' = [resp EXCEPT ![r] = IF l.pc = "failed" THEN ContextFailure ELSE @]
  /\ UNCHANGED <<srv, isDev, dbUp, db, nreq, conc, hdr, doc, fld, builds, seen>>

Awaiting(k) == [st |-> "await", k |-> k, out |-> NoOut, loc |-> NullV, res |-> NoRes]
Resolved(out) == [st |-> "children", k |-> 0, out |-> out, loc |-> NullV, res |-> NoRes]

\* an async root resolver is called with the request's context and runs up
\* to its first Prisma call
StartField(r, i) ==
  /\ srv = "prisma"
  /\ pc[r] = "exec"
  /\ i \in 1..Len(doc[r].sels)
  /\ fld[r][i].st = "pending"
  /\ CanStart(doc[r].kind, fld[r], i)
  /\ LET sel == doc[r].sels[i]
         out == Begin_prisma(sel, ctx[r])
     IN fld' = [fld EXCEPT ![r][i] =
                  IF out = NoOut THEN Awaiting(1)
                  ELSE Settled(out, CompleteField(srv, RootType(doc[r].kind), sel,
                                                  Key(doc[r].sels, i), out, ctx[r], db, dbUp))]
  /\ seen' = [seen EXCEPT ![r] = @ \cup {ctx[r]}]
  /\ ctx' = [ctx EXCEPT ![r] = ContextAfter(doc[r].sels[i], @)]
  /\ UNCHANGED <<srv, isDev, dbUp, db, nreq, conc, pc, hdr, doc, resp, builds, fault>>

\* the Prisma call a root resolver awaits settles and the resolver runs on
\* to its next call, to its return or to a throw
ResumeField(r, i) ==
  /\ srv = "prisma"
  /\ pc[r] = "exec"
  /\ i \in 1..Len(doc[r].sels)
  /\ fld[r][i].st = "await"
  /\ LET sel == doc[r].sels[i]
         rr == IF dbUp THEN Resume_prisma(sel, fld[r][i].k, ctx[r], db)
               ELSE Res(PrismaError, db)
     IN /\ db' = rr.db
        /\ fld' = [fld EXCEPT ![r][i] =
                     IF rr.out = NoOut THEN Awaiting(fld[r][i].k + 1)
                     ELSE IF rr.out.t = "ok" THEN Resolved(rr.out)
                     ELSE Settled(rr.out,
                                  CompleteField(srv, RootType(doc[r].kind), sel,
                                                Key(doc[r].sels, i), rr.out, ctx[r],
                                                rr.db, dbUp))]
  /\ ctx' = [ctx EXCEPT ![r] = ContextAfter(doc[r].sels[i], @)]
  /\ UNCHANGED <<srv, isDev, dbUp, nreq, conc, pc, hdr, doc, resp, builds, seen, fault>>

\* the value a root resolver returned is completed: the resolvers of the
\* selected fields of its objects run against the database
CompleteChildren(r, i) ==
  /\ srv = "prisma"
  /\ pc[r] = "exec"
  /\ i \in 1..Len(doc[r].sels)
  /\ fld[r][i].st = "children"
  /\ fld' = [fld EXCEPT ![r][i] =
               Settled(@.out, CompleteField(srv, RootType(doc[r].kind), doc[r].sels[i],
                                            Key(doc[r].sels, i), @.out, ctx[r], db, dbUp))]
  /\ seen' = [seen EXCEPT ![r] = @ \cup {ctx[r]}]
  /\ ctx' = [ctx EXCEPT ![r] = ContextAfter(doc[r].sels[i], @)]
  /\ UNCHANGED <<srv, isDev, dbUp, db, nreq, conc, pc, hdr, doc, resp, builds, fault>>

\* the database becomes unreachable / reachable again
DbFault ==
  /\ srv = "prisma"
  /\ dbUp
  /\ dbUp' = FALSE
  /\ UNCHANGED <<srv, isDev, db, nreq, conc, pc, hdr, doc, ctx, fld, resp, builds, seen, fault>>
DbRecover ==
  /\ srv = "prisma"
  /\ ~dbUp
  /\ dbUp' = TRUE
  /\ UNCHANGED <<srv, isDev, db, nreq, conc, pc, hdr, doc, ctx, fld, resp, builds, seen, fault>>

\* every root field has settled: the envelope is assembled and sent
Respond(r) ==
  /\ pc[r] = "exec"
  /\ \A i \in 1..Len(fld[r]) : fld[r][i].st = "settled"
  /\ resp' = [resp EXCEPT ![r] = Envelope(srv, isDev, fld[r])]
  /\ pc' = [pc EXCEPT ![r] = "done"]
  /\ UNCHANGED <<srv, isDev, dbUp, db, nreq, conc, hdr, doc, ctx, fld, builds, seen, fault>>

(* -------------------------- specifications ---------------------------- *)
Servers == {"context", "jwt", "errors", "prisma"}

InitRequests ==
  /\ nreq = 0
  /\ pc = [r \in Requests |-> "idle"]
  /\ hdr = [r \in Requests |-> <<>>]
  /\ doc = [r \in Requests |-> NoDoc]
  /\ ctx = [r \in Requests |-> NoCtx]
  /\ fld = [r \in Requests |-> <<>>]
  /\ resp = [r \in Requests |-> NoResp]
  /\ builds = [r \in Requests |-> 0]
  /\ seen = [r \in Requests |-> {}]
  /\ fault = [r \in Requests |-> FALSE]

\* one request at a time, on any of the servers
Init ==
  /\ srv \in Servers
  /\ isDev \in (IF srv = "errors" THEN BOOLEAN ELSE {FALSE})
  /\ dbUp = TRUE
  /\ db = InitialDb(srv)
  /\ conc = FALSE
  /\ InitRequests

Next ==
  \/ \E r \in Requests : Receive(r)
  \/ \E r \in Requests : Context_errors(r)
  \/ \E r \in Requests : Context_context(r)
  \/ \E r \in Requests : Context_jwt(r)
  \/ \E r \in Requests : Context_prisma(r)
  \/ \E r \in Requests : ContextLookup_prisma(r)
  \/ \E r \in Requests : \E i \in 1..MaxSel : StartField(r, i)
  \/ \E r \in Requests : \E i \in 1..MaxSel : ResumeField(r, i)
  \/ \E r \in Requests : \E i \in 1..MaxSel : CompleteChildren(r, i)
  \/ DbFault
  \/ DbRecover
  \/ \E r \in Requests : \E i \in 1..MaxSel : Invoke(r, i)
  \/ \E r \in Requests : Respond(r)

Spec == Init /\ [][Next]_vars

\* module-06-context with requests in flight at the same time
InitConc ==
  /\ srv = "context"
  /\ isDev = FALSE
  /\ dbUp = TRUE
  /\ db = InitialDb(srv)
  /\ conc = TRUE
  /\ InitRequests

NextConc ==
  \/ \E r \in Requests : Receive(r)
  \/ \E r \in Requests : Context_context(r)
  \/ \E r \in Requests : \E i \in 1..MaxSel : Invoke(r, i)
  \/ \E r \in Requests : Respond(r)

SpecConc == InitConc /\ [][NextConc]_vars

\* the writes of modules 07 and 06, one request at a time
InitStore ==
  /\ srv \in {"errors", "context"}
  /\ isDev = FALSE
  /\ dbUp = TRUE
  /\ db = InitialDb(srv)
  /\ conc = FALSE
  /\ InitRequests

NextStore ==
  \/ \E r \in Requests : ReceiveStore(r)
  \/ \E r \in Requests : Context_errors(r)
  \/ \E r \in Requests : Context_context(r)
  \/ \E r \in Requests : \E i \in 1..MaxSel : Invoke(r, i)
  \/ \E r \in Requests : Respond(r)

SpecStore == InitStore /\ [][NextStore]_vars

\* module-08 with requests in flight at the same time; the database is as
\* seeded, or as seeded with the comment on post p3 removed
InitRace ==
  /\ srv = "prisma"
  /\ isDev = FALSE
  /\ dbUp = TRUE
  /\ db \in { db_prisma, [db_prisma EXCEPT !.comments = SubSeq(@, 1, 3)] }
  /\ conc = TRUE
  /\ InitRequests

NextRace ==
  \/ \E r \in Requests : ReceiveRace(r)
  \/ \E r \in Requests : Context_prisma(r)
  \/ \E r \in Requests : ContextLookup_prisma(r)
  \/ \E r \in Requests : \E i \in 1..MaxSel : StartField(r, i)
  \/ \E r \in Requests : \E i \in 1..MaxSel : ResumeField(r, i)
  \/ \E r \in Requests : \E i \in 1..MaxSel : CompleteChildren(r, i)
  \/ \E r \in Requests : Respond(r)

SpecRace == InitRace /\ [][NextRace]_vars

\* module-05 with one request at a time
InitUsers ==
  /\ srv = "mutations"
  /\ isDev = FALSE
  /\ dbUp = TRUE
  /\ db = InitialDb(srv)
  /\ conc = FALSE
  /\ InitRequests

NextUsers ==
  \/ \E r \in Requests : ReceiveUsers(r)
  \/ \E r \in Requests : Context_mutations(r)
  \/ \E r \in Requests : \E i \in 1..MaxSel : Invoke(r, i)
  \/ \E r \in Requests : Respond(r)

SpecUsers == InitUsers /\ [][NextUsers]_vars

(* ------------------------------ properties ---------------------------- *)
Done(r) == pc[r] = "done"
\* the factory of request r returned a context
Built(r) == ctx[r] # NoCtx /\ "currentUser" \in DOMAIN ctx[r]
\* some root resolver of request r has been called
Invoked(r) == \E i \in 1..Len(fld[r]) : fld[r][i].st # "pending"
Decl(r, i) == Schema(srv, RootType(doc[r].kind), doc[r].sels[i].f)
ErrorsAt(r, path) == { e \in resp[r].errors : e.path = path }

\* C1: for every request the context factory runs exactly once, it has
\* returned before the first field resolver of the request is called, and
\* every resolver of the request is handed that one context value
C1_ContextOncePerRequest ==
  \A r \in Requests :
    /\ builds[r] <= 1
    /\ pc[r] \in {"ctxwait", "exec", "done", "failed"} => builds[r] = 1
    /\ Invoked(r) => builds[r] = 1 /\ Built(r)
    /\ seen[r] \subseteq {ctx[r]}

\* an async request answered after two resolvers ran on its one context
C1_Witness ==
  \E r \in Requests :
    /\ srv = "prisma" /\ Done(r) /\ Len(fld[r]) = 2
    /\ builds[r] = 1 /\ seen[r] = {ctx[r]} /\ ctx[r].currentUser # NullV

\* C2: when the context factory fails no resolver of the request is
\* called, the response is data null with exactly one error, and no
\* resolver ever receives a context the factory did not return
C2_FactoryFailure ==
  \A r \in Requests :
    /\ fault[r] =>
         /\ pc[r] = "failed"
         /\ seen[r] = {} /\ ~Invoked(r)
         /\ resp[r].data = NullV /\ Cardinality(resp[r].errors) = 1
    /\ \A c \in seen[r] : "currentUser" \in DOMAIN c

\* the identity lookup of a two-selection request was rejected
C2_Witness ==
  \E r \in Requests : fault[r] /\ pc[r] = "failed" /\ Len(doc[r].sels) = 2

SameCreateUser(r) ==
  /\ srv = "prisma" /\ doc[r].kind = "mutation" /\ Len(doc[r].sels) = 2
  /\ doc[r].sels[1].f = "createUser" /\ doc[r].sels[2].f = "createUser"
  /\ doc[r].sels[1].a.s = doc[r].sels[2].a.s
SameCreateOrder(r) ==
  /\ srv = "errors" /\ doc[r].kind = "mutation" /\ Len(doc[r].sels) = 2
  /\ doc[r].sels[1] = Sel("createOrder", Arg("4", 3, ""), <<"success">>)
  /\ doc[r].sels[2] = doc[r].sels[1]

\* C3: the top-level selections of a mutation run one at a time in
\* document order, so a selection reads the writes of the one before it:
\* creating the same user twice ends in CONFLICT the second time, and the
\* stock the first order took is missing for the second
C3_MutationsSerial ==
  \A r \in Requests :
    doc[r].kind = "mutation" =>
      /\ \A i \in 2..Len(fld[r]) :
           fld[r][i].st # "pending" => fld[r][i - 1].st = "settled"
      /\ (SameCreateUser(r) /\ fld[r][1].out.t = "ok" /\ fld[r][2].st = "settled") =>
           \/ fld[r][2].out.e.code = "CONFLICT"
           \/ fld[r][2].out = PrismaError
      /\ (SameCreateOrder(r) /\ fld[r][1].out.t = "ok" /\ fld[r][2].st = "settled") =>
           fld[r][2].out.e.code = "INSUFFICIENT_STOCK"

\* the second createUser of one mutation met the row the first one wrote
C3_Witness ==
  \E r \in Requests :
    /\ SameCreateUser(r) /\ Done(r)
    /\ fld[r][1].out.t = "ok" /\ fld[r][2].out.e.code = "CONFLICT"

\* the root resolver of selection i of request r threw or returned null
Failed(r, i) ==
  fld[r][i].out.t = "throw" \/ (fld[r][i].out.t = "ok" /\ fld[r][i].out.v = NullV)
\* the selected fields of a completed object are null only where nullable
ChildNullsOk(type, sub, v) ==
  \A j \in 1..Len(sub) : v.ch[j] = NullV => ~Schema(srv, type, sub[j]).nn
\* every null of the data of request r sits at a nullable position
NullsOk(r) ==
  resp[r].data # NullV =>
    \A i \in 1..Len(doc[r].sels) :
      LET v == resp[r].data.ch[i]
          sub == doc[r].sels[i].sub
      IN /\ v = NullV => ~Decl(r, i).nn
         /\ (v # NullV /\ Decl(r, i).kind = "object") => ChildNullsOk(Decl(r, i).of, sub, v)
         /\ (v # NullV /\ Decl(r, i).kind = "list") =>
              \A n \in 1..Len(v.items) :
                IF v.items[n] = NullV THEN ~Decl(r, i).inn
                ELSE ChildNullsOk(Decl(r, i).of, sub, v.items[n])
\* the failure below root selection i that the error e reports has nulled
\* the nearest nullable ancestor
NulledAbove(r, i, e) ==
  LET d == Decl(r, i)
  IN \/ resp[r].data = NullV
     \/ /\ ~d.nn
        /\ resp[r].data.ch[i] = NullV
     \/ /\ d.kind = "list" /\ ~d.inn /\ Len(e.path) = 3
        /\ \E n \in 1..Len(resp[r].data.ch[i].items) :
             ToString(n - 1) = e.path[2] /\ resp[r].data.ch[i].items[n] = NullV

AuthFields(s) ==
  CASE s = "errors" -> {"me", "adminStats", "createOrder", "cancelOrder", "updateOrderStatus"}
    [] s = "jwt" -> {"me", "adminOnly"}
    [] s = "context" -> {"me", "users", "myPosts", "publishPost"}
    [] s = "prisma" -> {"me", "users", "myPosts", "createUser"}
Anonymous(r) == Built(r) /\ ctx[r].currentUser = NullV

C6_ProductionMasksInternal ==
  \A r \in Requests :
    (Done(r) /\ srv = "errors" /\ ~isDev) =>
      \A e \in resp[r].errors :
        e.code = "INTERNAL_ERROR" => e.msg = "An unexpected error occurred"

\* C7: UNAUTHENTICATED is thrown only at callers without a valid
\* credential, an authorization code only at callers that have one
C7_AuthKindsKeptApart ==
  \A r \in Requests :
    (Built(r) /\ pc[r] \in {"exec", "done"}) =>
      \A i \in 1..Len(fld[r]) :
        /\ fld[r][i].out.e.code = "UNAUTHENTICATED" => ctx[r].currentUser = NullV
        /\ fld[r][i].out.e.code \in {"FORBIDDEN", "INSUFFICIENT_PERMISSIONS"} =>
             ctx[r].currentUser # NullV

\* C9: a nullable field whose resolver throws is null with an error at its
\* path, and by itself leaves data and every sibling as they resolved
C9_NullableThrow ==
  \A r \in Requests :
    Done(r) =>
      \A i \in 1..Len(doc[r].sels) :
        (fld[r][i].out.t = "throw" /\ ~Decl(r, i).nn) =>
          /\ FieldError(<<Key(doc[r].sels, i)>>, fld[r][i].out.e) \in resp[r].errors
          /\ (\A j \in 1..Len(doc[r].sels) : j # i => ~fld[r][j].res.bubble) =>
               /\ resp[r].data # NullV
               /\ resp[r].data.ch[i] = NullV
               /\ \A j \in 1..Len(doc[r].sels) : resp[r].data.ch[j] = fld[r][j].res.data

\* anonymous { me users } on module-06-context-02: me null, users listed
C9_Witness ==
  \E r \in Requests :
    /\ srv = "jwt" /\ Done(r) /\ Len(doc[r].sels) = 2
    /\ doc[r].sels[1].f = "me" /\ doc[r].sels[2].f = "users"
    /\ fld[r][1].out.t = "throw"
    /\ resp[r].data # NullV /\ resp[r].data.ch[1] = NullV
    /\ Len(resp[r].data.ch[2].items) = 3

\* C8: the per-request fields of a context come from its own request and
\* stay what the factory made them while another request is in flight;
\* resolvers see only their request's context; the db handle is shared
C8_ContextIsolation ==
  \A r \in Requests :
    /\ seen[r] \subseteq {ctx[r]}
    /\ Built(r) =>
         /\ ctx[r].currentUser = authenticateRequest(hdr[r])
         /\ ctx[r].logger = createLogger(ctx[r].request.requestId)
         /\ \A q \in Requests : Built(q) => ctx[q].db = ctx[r].db
         /\ \A i \in 1..Len(fld[r]) :
              (doc[r].sels[i].f = "requestInfo" /\ fld[r][i].st = "settled") =>
                /\ fld[r][i].out.v.o.requestId = ctx[r].request.requestId
                /\ fld[r][i].out.v.o.authenticated = (authenticateRequest(hdr[r]) # NullV)

\* two requests of different callers are being resolved at the same time
C8_Witness ==
  \E r, q \in Requests :
    /\ pc[r] = "exec" /\ pc[q] = "exec" /\ seen[r] # {} /\ seen[q] # {}
    /\ ctx[r].currentUser # ctx[q].currentUser
    /\ ctx[r].request.requestId # ctx[q].request.requestId

Runs(r, i) ==
  /\ pc[r] = "exec" /\ i \in 1..Len(fld[r])
  /\ fld[r][i].st = "pending" /\ fld'[r][i].st = "settled"

\* C12: no mutation changes a delivered order to cancelled; cancelOrder on
\* a delivered order, called by its owner or an admin, is rejected with
\* CONFLICT and leaves the orders and the product stock as they were
C12_DeliveredNeverCancelled ==
  [][srv = "errors" =>
       /\ \A n \in 1..Len(db.orders) :
            db.orders[n].status = "delivered" => db'.orders[n].status # "cancelled"
       /\ \A r \in Requests : \A i \in 1..MaxSel :
            LET a == doc[r].sels[i].a
                order == Find(db.orders, LAMBDA o : o.id = a.id)
            IN (Runs(r, i) /\ doc[r].sels[i].f = "cancelOrder"
                /\ ctx[r].currentUser # NullV /\ order # NullV
                /\ order.status = "delivered"
                /\ (order.userId = ctx[r].currentUser.id
                    \/ ctx[r].currentUser.role = "admin")) =>
                 /\ fld'[r][i].out.e.code = "CONFLICT"
                 /\ db' = db]_vars

\* the rules of createProduct that the arguments a violate, by field
Violated(a) ==
  (IF a.name = "" \/ Len(Trim(a.name)) < 2 THEN {"name"} ELSE {}) \cup
  (IF a.price <= 0 \/ a.price > 1000000 THEN {"price"} ELSE {}) \cup
  (IF a.stock < 0 THEN {"stock"} ELSE {})

\* C13: createProduct called by an admin with several invalid arguments
\* ends in one error at its path, of code VALIDATION_ERROR, whose
\* validationErrors name every violated rule; no product is added
C13_CreateProductValidation ==
  \A r \in Requests :
    (srv = "errors" /\ Done(r) /\ ctx[r].currentUser # NullV
     /\ ctx[r].currentUser.role = "admin") =>
      \A i \in 1..Len(doc[r].sels) :
        LET a == doc[r].sels[i].a
            at == ErrorsAt(r, <<Key(doc[r].sels, i)>>)
        IN (doc[r].sels[i].f = "createProduct" /\ Cardinality(Violated(a)) >= 2) =>
             /\ Cardinality(at) = 1
             /\ \A e \in at :
                  /\ e.code = "VALIDATION_ERROR"
                  /\ "validationErrors" \in DOMAIN e
                  /\ { e.validationErrors[n].field : n \in 1..Len(e.validationErrors) }
                       = Violated(a)
             /\ \A n \in 1..Len(db.products) : db.products[n].name # Trim(a.name)

\* C14: Query.me of module-06-context throws 'Authentication required'
\* when the context has no currentUser, and returns the user that
\* db.users.findById(currentUser.id) finds when it has one
C14_MeRequiresAuth ==
  \A r \in Requests :
    (srv = "context" /\ Built(r)) =>
      \A i \in 1..Len(fld[r]) :
        (doc[r].sels[i].f = "me" /\ fld[r][i].st = "settled") =>
          IF ctx[r].currentUser = NullV
          THEN /\ fld[r][i].out.t = "throw"
               /\ fld[r][i].out.e.msg = "Authentication required"
          ELSE fld[r][i].out =
                 Return(Box(Find(db.users, LAMBDA u : u.id = ctx[r].currentUser.id)))

\* C15: updatePost, deletePost and publishPost of module-06-context change
\* or remove a post only for its author or an admin; any other
\* authenticated caller gets FORBIDDEN and the posts stay as they were
C15_PostWritesByOwnerOrAdmin ==
  [][srv = "context" =>
       \A r \in Requests : \A i \in 1..MaxSel :
         LET sel == doc[r].sels[i]
             c == ctx[r]
             post == Find(db.posts, LAMBDA q : q.id = sel.a.id)
             allowed == /\ c.currentUser # NullV /\ post # NullV
                        /\ (post.authorId = c.currentUser.id
                            \/ c.currentUser.role = "admin")
         IN (Runs(r, i) /\ sel.f \in {"updatePost", "deletePost", "publishPost"}) =>
              /\ db' # db => allowed
              /\ (c.currentUser # NullV /\ post # NullV /\ ~allowed) =>
                   /\ fld'[r][i].out.e.code = "FORBIDDEN"
                   /\ db' = db]_vars

\* Jane tried to update John's post 1: FORBIDDEN, the posts are untouched
C15_Witness ==
  \E r \in Requests :
    /\ srv = "context" /\ Done(r)
    /\ doc[r].sels[1].f = "updatePost" /\ doc[r].sels[1].a.id = "1"
    /\ ctx[r].currentUser # NullV /\ ctx[r].currentUser.id = "3"
    /\ fld[r][1].out.e.code = "FORBIDDEN"
    /\ db = createDatabase

\* C16: two executions of the same query with the same credentials against
\* an unchanged data store are answered with identical envelopes
C16_SameQuerySameEnvelope ==
  \A r, q \in Requests :
    (Done(r) /\ Done(q) /\ doc[r].kind = "query" /\ doc[q] = doc[r]
     /\ hdr[q] = hdr[r] /\ db = InitialDb(srv)) =>
      resp[q] = resp[r]

\* the users Query.user of the server searches
UsersOf(s) == IF s = "errors" THEN users_errors ELSE db.users

C18_BatchUsers ==
  \A r \in Requests :
    srv = "errors" =>
      \A i \in 1..Len(fld[r]) :
        (doc[r].sels[i].f = "batchUsers" /\ fld[r][i].st = "settled") =>
          LET ids == doc[r].sels[i].a.ids
              found(id) == \E n \in 1..Len(users_errors) : users_errors[n].id = id
          IN /\ fld[r][i].out.t = "ok"
             /\ LET o == fld[r][i].out.v.o
                IN /\ Len(o.users) = Len(ids)
                   /\ \A n \in 1..Len(ids) :
                        /\ (o.users[n].user # NullV) # (o.users[n].error # NullV)
                        /\ IF found(ids[n]) THEN o.users[n].user.id = ids[n]
                           ELSE o.users[n].error =
                                  Str("User with id \"" \o ids[n] \o "\" not found")
                   /\ o.successCount = Cardinality({ n \in 1..Len(ids) : found(ids[n]) })
                   /\ o.successCount + o.errorCount = Len(ids)

\* batchUsers(ids: ["1", "2", "999", "3"]) answered: three users, one error
C18_Witness ==
  \E r \in Requests :
    /\ srv = "errors" /\ Done(r)
    /\ doc[r].sels[1].f = "batchUsers"
    /\ doc[r].sels[1].a.ids = <<"1", "2", "999", "3">>
    /\ fld[r][1].out.v.o.successCount = 3 /\ fld[r][1].out.v.o.errorCount = 1
    /\ resp[r].data # NullV /\ resp[r].errors = {}

\* request r is an admin's createUser whose resolver has settled
CreatedUser(r) ==
  /\ Len(fld[r]) = 1 /\ doc[r].sels[1].f = "createUser"
  /\ Built(r) /\ ctx[r].currentUser # NullV /\ ctx[r].currentUser.role = "admin"
  /\ fld[r][1].st = "settled"

\* C19: of two concurrent createUser requests for the same e-mail exactly
\* one creates the user and the other is rejected with CONFLICT; no two
\* users share an e-mail, and the loser never fails with an uncoded error
C19_ConcurrentCreateUser ==
  srv = "prisma" =>
    /\ \A m, n \in 1..Len(db.users) : db.users[m].email = db.users[n].email => m = n
    /\ \A r, q \in Requests :
         (r # q /\ CreatedUser(r) /\ CreatedUser(q)
          /\ doc[r].sels[1].a.s = doc[q].sels[1].a.s) =>
           /\ fld[r][1].out.e.code # "" \/ fld[r][1].out.t = "ok"
           /\ (fld[r][1].out.t = "ok") # (fld[q][1].out.t = "ok")
           /\ fld[r][1].out.t # "ok" => fld[r][1].out.e.code = "CONFLICT"

\* C20: a comment is written only for a post that exists and is published
\* in the database at the moment of the write, whatever another request
\* did between createComment's check and its write
C20_CommentOnPublishedPost ==
  [][srv = "prisma" =>
       \A n \in 1..Len(db'.comments) :
         n > Len(db.comments) =>
           \E m \in 1..Len(db.posts) :
             /\ db.posts[m].id = db'.comments[n].postId
             /\ db.posts[m].published]_vars

\* total quantity of the orders of product id that were created through
\* createOrder (the orders after the seeded ones) and are not cancelled
RECURSIVE Outstanding(_, _, _)
Outstanding(orders, id, n) ==
  IF n > Len(orders) THEN 0
  ELSE (IF orders[n].productId = id /\ orders[n].status # "cancelled"
        THEN orders[n].quantity ELSE 0) + Outstanding(orders, id, n + 1)

\* C21: for every product, stock plus the total quantity of the
\* non-cancelled orders created through createOrder is the same before and
\* after every step of createOrder, cancelOrder and updateOrderStatus
C21_StockConservation ==
  [][srv = "errors" =>
       \A n \in 1..Len(db.products) :
         db'.products[n].stock
           + Outstanding(db'.orders, db.products[n].id, Len(orders_errors) + 1)
         = db.products[n].stock
           + Outstanding(db.orders, db.products[n].id, Len(orders_errors) + 1)]_vars

MayCancel(c, order) ==
  c.currentUser # NullV
  /\ (order.userId = c.currentUser.id \/ c.currentUser.role = "admin")
MayUpdate(c) == c.currentUser # NullV /\ c.currentUser.role = "admin"

C28_ProductNamesUnique ==
  [][srv = "errors" =>
       /\ \A n, m \in 1..Len(db'.products) :
            ToLowerCase(db'.products[n].name) = ToLowerCase(db'.products[m].name)
              => n = m
       /\ \A r \in Requests : \A i \in 1..MaxSel :
            LET a == doc[r].sels[i].a
            IN (Runs(r, i) /\ doc[r].sels[i].f = "createProduct"
                /\ MayUpdate(ctx[r]) /\ Violated(a) = {}
                /\ \E n \in 1..Len(db.products) :
                     ToLowerCase(db.products[n].name) = ToLowerCase(Trim(a.name))) =>
                 /\ fld'[r][i].out.e.code = "CONFLICT"
                 /\ db' = db]_vars

\* C29: every post that a step of createPost or updatePost of module-06
\* created or changed has a trimmed title of at least 3 characters and a
\* trimmed content of at least 10 characters
C29_PostTextLengths ==
  [][srv = "context" =>
       \A r \in Requests : \A i \in 1..MaxSel :
         (Runs(r, i) /\ doc[r].sels[i].f \in {"createPost", "updatePost"}) =>
           \A n \in 1..Len(db'.posts) :
             (n > Len(db.posts) \/ db'.posts[n] # db.posts[n]) =>
               /\ Len(Trim(db'.posts[n].title)) >= 3
               /\ Len(Trim(db'.posts[n].content)) >= 10]_vars

\* the posts that a completed value of the response holds: the value
\* itself, its selected children and the items of a list
IsPost(o) == "published" \in DOMAIN o /\ "authorId" \in DOMAIN o
PostsOfLeaf(v) ==
  IF v.k = "obj" /\ IsPost(v.o) THEN {v.o}
  ELSE IF v.k = "list" /\ "l" \in DOMAIN v
       THEN { v.l[n] : n \in { m \in 1..Len(v.l) : IsPost(v.l[m]) } }
  ELSE {}
PostsOfObject(v) ==
  IF v.k # "obj" THEN {}
  ELSE (IF IsPost(v.o) THEN {v.o} ELSE {}) \cup
       (IF "ch" \in DOMAIN v
        THEN UNION { PostsOfLeaf(v.ch[j]) : j \in 1..Len(v.ch) } ELSE {})
PostsOfField(v) ==
  IF v.k = "list" /\ "items" \in DOMAIN v
  THEN UNION { PostsOfObject(v.items[n]) : n \in 1..Len(v.items) }
  ELSE PostsOfObject(v)
\* the posts in the data of the response of request r
Returned(r) ==
  IF resp[r].data = NullV THEN {}
  ELSE UNION { PostsOfField(resp[r].data.ch[i]) : i \in 1..Len(resp[r].data.ch) }
\* the post is published, or the caller is its author or an admin
MaySee(c, post) ==
  post.published
  \/ (c.currentUser # NullV
      /\ (c.currentUser.id = post.authorId \/ c.currentUser.role = "admin"))

\* C25: module-06-context returns a post with published = false only to
\* its author or an admin, whatever query or field resolver produced it
C25_DraftsStayPrivate_context ==
  \A r \in Requests :
    (srv = "context" /\ Done(r)) => \A post \in Returned(r) : MaySee(ctx[r], post)

\* John asked for user 3 with her posts while post 3 was a draft: the
\* user came back with an empty list of posts
C25_Witness ==
  \E r \in Requests :
    /\ srv = "context" /\ Done(r)
    /\ doc[r].sels[1].f = "user" /\ doc[r].sels[1].a.id = "3"
    /\ ctx[r].currentUser # NullV /\ ctx[r].currentUser.id = "2"
    /\ \E n \in 1..Len(db.posts) : db.posts[n].authorId = "3" /\ ~db.posts[n].published
    /\ resp[r].data # NullV /\ resp[r].data.ch[1] # NullV
    /\ resp[r].data.ch[1].ch[2] = List(<<>>)

\* C24: module-08 returns a post with published = false only to its author
\* or an admin, whatever query or field resolver produced it
C24_DraftsStayPrivate_prisma ==
  \A r \in Requests :
    (srv = "prisma" /\ Done(r)) => \A post \in Returned(r) : MaySee(ctx[r], post)

\* the configured users by position in Tokens(s): admin, John, Jane
TokenUser(k) ==
  CASE k = 1 -> AuthUser("1", "admin@example.com", "admin")
    [] k = 2 -> AuthUser("2", "john@example.com", "user")
    [] k = 3 -> AuthUser("3", "jane@example.com", "user")

\* C26: in modules 06, 06-02 and 07 the context's currentUser is the user
\* of the token when the Authorization header is 'Bearer ' followed by a
\* configured token, and null for every other header value
C26_OnlyConfiguredTokens ==
  \A r \in Requests :
    (srv \in {"context", "jwt", "errors"} /\ Built(r)) =>
      /\ \A k \in 1..3 :
           hdr[r] = <<"Bearer", Tokens(srv)[k]>> =>
             /\ ctx[r].currentUser # NullV
             /\ ctx[r].currentUser.id = TokenUser(k).id
             /\ ctx[r].currentUser.email = TokenUser(k).email
             /\ ctx[r].currentUser.role = TokenUser(k).role
      /\ (\A k \in 1..3 : hdr[r] # <<"Bearer", Tokens(srv)[k]>>) =>
           ctx[r].currentUser = NullV

\* some user other than the one with id excludeId has the address,
\* ignoring case
Taken(email, excludeId) ==
  \E n \in 1..Len(db.users) :
    db.users[n].id # excludeId /\ ToLowerCase(db.users[n].email) = ToLowerCase(email)

====
